---- MODULE Spec2Model ----
(***************************************************************************)
(* The LangGraph decision-making agent: planner -> tool_selector ->        *)
(* tool_executor -> analyzer -> (tool_selector | synthesizer) -> END.      *)
(*                                                                         *)
(* Texts produced by the oracle are sequences of tokens (braces, JSON      *)
(* members, prose), so that the executor's regular expression and          *)
(* json.loads are computed on them.  Plan steps and goals are concrete     *)
(* strings; what the code's substring tests and regular expressions give   *)
(* on them is tabulated from the source's expressions.  The `messages`     *)
(* log of AgentState is not modelled: no node reads it.                    *)
(***************************************************************************)
EXTENDS Integers, Sequences, FiniteSets, TLC

\* Bounds of the model.
MaxPlanLen == 2
MaxCeiling == 3
MaxListLen == 2

VARIABLES
    state,           \* the AgentState mapping
    pc,              \* the node the graph runs next
    MAX_ITERATIONS,  \* src/config.py, read once at start
    lastNode,        \* history: the node that ran last
    lastBranch,      \* history: the return taken by the last tool_executor pass
    trace,           \* history: counters of what has happened in the run
    probe            \* a call of a helper on its own: its arguments and result

vars == <<state, pc, MAX_ITERATIONS, lastNode, lastBranch, trace, probe>>

----------------------------------------------------------------------------
(* JSON values.  A scalar carries its Python str() form in s. *)

JStr(x) == [ty |-> "str", s |-> x]
JNum(x) == [ty |-> "num", s |-> x]
JNull == [ty |-> "null", s |-> "None"]
JList(xs) == [ty |-> "list", items |-> xs]
JDict(m) == [ty |-> "dict", map |-> m]
EmptyMap == [k \in {} |-> JNull]

\* The element of a one-element set: Only({e(x) : x \in {v}}) is e(v) with v
\* evaluated once.
Only(S) == CHOOSE x \in S : TRUE

\* Python truthiness (`not x`, `x or {}`).
Truthy(v) ==
    CASE v.ty = "str" -> v.s # ""
      [] v.ty = "num" -> v.s \notin {"0", "0.0"}
      [] v.ty = "null" -> FALSE
      [] v.ty = "list" -> Len(v.items) > 0
      [] v.ty = "dict" -> DOMAIN v.map # {}

\* dict.get(k) with Python's None for a missing key.
Get(m, k) == IF k \in DOMAIN m THEN m[k] ELSE JNull

\* m[k] = v on a dict.
Put(m, k, v) == [x \in DOMAIN m \cup {k} |-> IF x = k THEN v ELSE m[x]]

\* dict.pop(k, None).
Pop(m, k) == [x \in DOMAIN m \ {k} |-> m[x]]

----------------------------------------------------------------------------
(* Oracle texts as token sequences. *)

LB == [t |-> "{", k |-> "", v |-> JNull]
RB == [t |-> "}", k |-> "", v |-> JNull]
Pair(k, v) == [t |-> "pair", k |-> k, v |-> v]    \* "k": v, v without braces
Key(k) == [t |-> "key", k |-> k, v |-> JNull]      \* "k": before a nested object
Raw(w) == [t |-> "raw", k |-> w, v |-> JNull]      \* text that is no JSON member

TOOL_NAMES == <<"search_products", "analyze_reviews", "calculate_statistics">>
TOOL_MAP == {TOOL_NAMES[i] : i \in 1..Len(TOOL_NAMES)}

\* {"tool": T, "parameters": {K: V}}
TextNested(T, K, V) ==
    <<LB, Pair("tool", JStr(T)), Key("parameters"), LB, Pair(K, V), RB, RB>>
\* {"tool": T}
TextFlat(T) == <<LB, Pair("tool", JStr(T)), RB>>

TextSearchNested == TextNested("search_products", "category", JStr("Electronics"))
TextStatsNested == TextNested("calculate_statistics", "operation", JStr("rating_ranking"))
TextSearchFlat == TextFlat("search_products")
TextReviewsFlat == TextFlat("analyze_reviews")
TextUnknownTool == TextFlat("send_email")
TextNoName == <<LB, Pair("note", JStr("none")), RB>>
TextBadJson == <<LB, Raw("tool: search_products"), RB>>
TextParamsString ==
    <<LB, Pair("tool", JStr("analyze_reviews")), Pair("parameters", JStr("all")), RB>>
TextProse == <<Raw("I cannot decide.")>>

\* The two selector texts of the category comparison scenario:
\* {"tool": "search_products", "parameters": {"category": "Electronics, Clothing"}}
\* {"tool": "calculate_statistics", "parameters": {"operation":
\*   "category_comparison", "categories": ["Electronics", "Clothing"]}}
TextSearchCompare == TextNested("search_products", "category", JStr("Electronics, Clothing"))
TextStatsCompare ==
    <<LB, Pair("tool", JStr("calculate_statistics")), Key("parameters"),
      LB, Pair("operation", JStr("category_comparison")),
          Pair("categories", JList(<<JStr("Electronics"), JStr("Clothing")>>)), RB, RB>>

SelectorTexts ==
    { TextSearchNested, TextStatsNested, TextSearchFlat, TextReviewsFlat,
      TextUnknownTool, TextNoName, TextBadJson, TextParamsString, TextProse }

\* The tool names a prose token contains (lowercased substring test).
RawMentions(w) == IF w = "tool: search_products" THEN {"search_products"} ELSE {}

\* `candidate in analysis.lower()`
Mentions(text, name) ==
    \E i \in 1..Len(text) :
        \/ text[i].t \in {"pair", "key"} /\ text[i].k = name
        \/ text[i].t = "pair" /\ text[i].v.ty = "str" /\ text[i].v.s = name
        \/ text[i].t = "raw" /\ name \in RawMentions(text[i].k)

IsBrace(tok) == tok.t \in {"{", "}"}

\* Whether the brace-free object text of re.search(r"\{[^{}]*\}", ...) can
\* run from position i to position j: "{" at i, "}" at j, no brace between.
IsObjectSpan(analysis, i, j) ==
    /\ analysis[i].t = "{"
    /\ analysis[j].t = "}"
    /\ \A m \in (i+1)..(j-1) : ~IsBrace(analysis[m])

\* The spans the regular expression can match.
ObjectSpans(analysis) ==
    { ij \in (1..Len(analysis)) \X (1..Len(analysis)) :
        ij[1] < ij[2] /\ IsObjectSpan(analysis, ij[1], ij[2]) }

\* The leftmost of a non-empty set of spans.
Leftmost(spans) == CHOOSE ij \in spans : \A other \in spans : ij[1] <= other[1]

\* re.search(r"\{[^{}]*\}", analysis): the leftmost "{" whose next brace is
\* a "}"; <<i, j>> are the positions of the two braces, <<>> is no match.
json_match(analysis) ==
    Only({ IF spans = {} THEN <<>> ELSE Leftmost(spans) :
             spans \in {ObjectSpans(analysis)} })

\* json_match.group()
MatchGroup(analysis) ==
    LET m == json_match(analysis) IN SubSeq(analysis, m[1], m[2])

\* json.loads on a brace-free object text: a mapping when every member is a
\* "k": v pair (a repeated key keeps its last value), else JSONDecodeError.
json_loads(group) ==
    LET body == SubSeq(group, 2, Len(group) - 1)
        ok == \A i \in 1..Len(body) : body[i].t = "pair"
        keys == { body[i].k : i \in 1..Len(body) }
        last(k) == CHOOSE i \in 1..Len(body) :
                      /\ body[i].k = k
                      /\ \A n \in 1..Len(body) : body[n].k = k => n <= i
    IN  IF ok THEN [ok |-> TRUE, obj |-> [k \in keys |-> body[last(k)].v]]
        ELSE [ok |-> FALSE, obj |-> EmptyMap]

----------------------------------------------------------------------------
(* Plan steps and goals: concrete strings, with what the code's substring  *)
(* tests and regular expressions yield on each of them.                    *)

StepSearch == "Search for products in the Electronics category"
StepReviews == "Analyze reviews for complaints"
StepStats == "Calculate category statistics for comparison"
PlanSteps == {StepSearch, StepReviews, StepStats}

\* A second search step, of the plans that search twice before they analyse.
StepSearchClothing == "Search for products in the Clothing category"

\* A review step that asks for complaints in words that also hold a praise cue.
StepComplaintsFail == "Analyze reviews for complaints and what makes products fail"

\* A review step whose words also hold statistics keywords.
StepReviewSummary == "Analyze reviews and calculate summary statistics"

\* A search step that names both categories of GoalCompare.
StepSearchBoth == "Search for products in the Electronics and Clothing categories"

\* The first line of a planner response whose bracketed text is no JSON.
StepDraft == "[draft]"

GoalCompare == "Compare Electronics and Clothing categories"
GoalUnder == "find products under 2000 with rating below 4.0"
GoalTop == "Find the top 5 products in the Electronics category"
Goals == {GoalCompare, GoalUnder, GoalTop}

\* The keywords of the executor's tests that occur in text.lower().
Keywords(text) ==
    CASE text = StepReviews -> {"review", "analy", "complaint"}
      [] text = StepComplaintsFail -> {"review", "analy", "complaint", "what makes"}
      [] text = StepReviewSummary -> {"review", "analy", "statistic", "calculate", "summary"}
      [] text = StepStats -> {"statistic", "calculate"}
      [] text = GoalCompare -> {"compare"}
      [] OTHER -> {}

\* `kw in step_lower`
Contains(text, kw) == kw \in Keywords(text)

\* _extract_category_hints(text): the comma-joined hint, or None.
_extract_category_hints(text) ==
    CASE text = StepSearch -> JStr("Electronics")
      [] text = StepSearchClothing -> JStr("Clothing")
      [] text = StepSearchBoth -> JStr("Electronics, Clothing")
      [] text = StepComplaintsFail ->
            JStr("Analyze reviews for complaints, what makes products fail")
      [] text = StepReviewSummary -> JStr("Analyze reviews, calculate summary statistics")
      [] text = GoalTop -> JStr("Electronics")
      [] text = GoalCompare -> JStr("Compare Electronics, Clothing categories")
      [] OTHER -> JNull

\* _extract_top_n(text): the number after "top" or before "products"/"items",
\* or None.
_extract_top_n(text) ==
    CASE text = GoalTop -> JNum("5")
      [] OTHER -> JNull

\* re.search(r"(below|under|less than)\s*([0-9](?:\.[0-9])?)", goal_text):
\* float(group 2) of the first match, or None when there is no match.  In
\* GoalUnder the first match is "under 2", of "under 2000".
MaxRatingOf(goal_text) ==
    CASE goal_text = GoalUnder -> JNum("2.0")
      [] OTHER -> JNull

\* re.search(r"(above|over|greater than)\s*([0-9](?:\.[0-9])?)", goal_text):
\* no goal of the model has a match.
MinRatingOf(goal_text) == JNull

\* len(cat_val) > 40 and " " in cat_val
looks_like_sentence(text) ==
    text \in {StepSearch, StepSearchClothing, StepSearchBoth, StepStats, StepComplaintsFail,
              "Analyze reviews for complaints, what makes products fail",
              StepReviewSummary, "Analyze reviews, calculate summary statistics",
              GoalCompare, GoalUnder, GoalTop}

\* cat_val.strip().lower() == user_goal.strip().lower(); no two strings of
\* the model differ only in case or outer blanks.
SameStrippedLower(a, b) == a = b

----------------------------------------------------------------------------
(* Results of the three operations.  tool.invoke is outside the agent: it   *)
(* returns a structured mapping, a plain string, or raises.                *)

DictResult(summary, names) == [type |-> "dict", summary |-> summary, products |-> names]
StrResult(text) == [type |-> "str", text |-> text]
Raised == [type |-> "raise", text |-> "ValidationError"]

SearchFound == DictResult("Found 2 product(s) matching your criteria:", <<"Speaker B", "Printer A">>)
SearchEmpty == DictResult("Found 0 product(s) matching your criteria:", <<>>)
SearchNone == StrResult("No products found matching the specified criteria.")
ReviewsReport == StrResult("**Review Analysis Report**")
ReviewsNone == StrResult("No reviews found matching the specified criteria.")
StatsReport == StrResult("**Dataset Summary Statistics**")
StatsError == StrResult("Error calculating statistics: dataset not found")

\* What tool.invoke may give for each operation.
ToolOutcomes(tool_name) ==
    CASE tool_name = "search_products" -> {SearchFound, SearchEmpty, SearchNone, Raised}
      [] tool_name = "analyze_reviews" -> {ReviewsReport, ReviewsNone, Raised}
      [] tool_name = "calculate_statistics" -> {StatsReport, StatsError, Raised}
      [] OTHER -> {Raised}

----------------------------------------------------------------------------
(* History records. *)

ErrorRecord(msg) == [error |-> msg]
ResultRecord(step, tool, parameters, result) ==
    [step |-> step, tool |-> tool, parameters |-> parameters, result |-> result]

IsError(rec) == "error" \in DOMAIN rec

----------------------------------------------------------------------------
(* The deduplicator. *)

\* The strings that occur in lists, in Python's string order.
StrOrder == <<"1", "Printer A", "Speaker B">>
StrRank(x) == CHOOSE i \in 1..Len(StrOrder) : StrOrder[i] = x

\* sorted(xs, key=lambda x: str(x)): stable, so elements with equal str()
\* keep their order.  List elements of the model are scalars.
RECURSIVE SortedByStr(_)
SortedByStr(xs) ==
    IF xs = <<>> THEN <<>>
    ELSE LET init == SortedByStr(SubSeq(xs, 1, Len(xs) - 1))
             x == xs[Len(xs)]
             n == Cardinality({ i \in 1..Len(init) : StrRank(init[i].s) <= StrRank(x.s) })
         IN  SubSeq(init, 1, n) \o <<x>> \o SubSeq(init, n + 1, Len(init))

RECURSIVE _norm(_)
_norm(val) ==
    CASE val.ty = "dict" -> JDict([k \in DOMAIN val.map |-> _norm(val.map[k])])
      [] val.ty = "list" ->
            JList(SortedByStr([i \in 1..Len(val.items) |-> _norm(val.items[i])]))
      [] OTHER -> val

\* The positions of tool_results a call of (tool, params) duplicates.
DuplicatesOf(tool, params, tool_results) ==
    UNION { { i \in 1..Len(tool_results) :
                /\ ~IsError(tool_results[i])
                /\ tool_results[i].tool = tool
                /\ _norm(tool_results[i].parameters) = target } :
            target \in {_norm(params)} }

\* _find_duplicate_result, had it skipped the records of the same operation
\* instead of those of the others.
_find_duplicate_result_other_tool(tool, params, tool_results) ==
    LET dups == { i \in 1..Len(tool_results) :
                    /\ ~IsError(tool_results[i])
                    /\ tool_results[i].tool # tool
                    /\ _norm(tool_results[i].parameters) = _norm(params) }
    IN  IF dups = {} THEN [type |-> "none"]
        ELSE tool_results[CHOOSE i \in dups : \A j \in dups : j <= i].result

\* _find_duplicate_result: the result of the latest duplicate, or None.
_find_duplicate_result(tool, params, tool_results) ==
    LET dups == DuplicatesOf(tool, params, tool_results)
    IN  IF dups = {} THEN [type |-> "none"]
        ELSE tool_results[CHOOSE i \in dups : \A j \in dups : j <= i].result

----------------------------------------------------------------------------
(* tool_executor_node: selection parsing and parameter repair. *)

NoResult == [type |-> "none"]

NameIs(name, t) == name.ty = "str" /\ name.s = t

\* state.get("plan", [])[state.get("current_step", 0)] inside try/except:
\* "" when the index is out of range.
current_task_text(s) ==
    IF s.current_step < Len(s.plan) THEN s.plan[s.current_step + 1] ELSE ""

\* tool_selection = json.loads(json_match.group())
tool_selection(s) == json_loads(MatchGroup(s.intermediate_analysis)).obj

\* tool_selection.get("tool"), and the fallback that takes the first name of
\* TOOL_MAP the text contains when the selection names no operation.
SelectedToolName(s) ==
    LET tool_name == Get(tool_selection(s), "tool")
        cands == { i \in 1..Len(TOOL_NAMES) :
                     Mentions(s.intermediate_analysis, TOOL_NAMES[i]) }
    IN  IF Truthy(tool_name) \/ cands = {} THEN tool_name
        ELSE JStr(TOOL_NAMES[CHOOSE i \in cands : \A j \in cands : i <= j])

\* parameters = tool_selection.get("parameters", {}) or {}
SelectedParameters(s) ==
    LET p == Get(tool_selection(s), "parameters")
    IN  IF Truthy(p) THEN p ELSE JDict(EmptyMap)

\* AlignedToolName, had the step text decided only when the selector named
\* no operation of the catalog.
AlignedToolName_keeping_selector(tool_name, step_lower) ==
    IF tool_name.ty = "str" /\ tool_name.s \in TOOL_MAP
    THEN tool_name
    ELSE IF /\ Contains(step_lower, "review")
            /\ \E k \in {"analy", "complaint", "praise", "theme"} : Contains(step_lower, k)
    THEN JStr("analyze_reviews")
    ELSE IF \E k \in {"statistic", "calculate", "compare", "ranking", "average", "summary"} :
                Contains(step_lower, k)
    THEN JStr("calculate_statistics")
    ELSE tool_name

\* AlignedToolName, had the statistics keywords been tried first.
AlignedToolName_statistics_first(tool_name, step_lower) ==
    IF \E k \in {"statistic", "calculate", "compare", "ranking", "average", "summary"} :
          Contains(step_lower, k)
    THEN JStr("calculate_statistics")
    ELSE IF /\ Contains(step_lower, "review")
            /\ \E k \in {"analy", "complaint", "praise", "theme"} : Contains(step_lower, k)
    THEN JStr("analyze_reviews")
    ELSE tool_name

\* The step-text override of the operation name.
AlignedToolName(tool_name, step_lower) ==
    IF /\ Contains(step_lower, "review")
       /\ \E k \in {"analy", "complaint", "praise", "theme"} : Contains(step_lower, k)
    THEN JStr("analyze_reviews")
    ELSE IF \E k \in {"statistic", "calculate", "compare", "ranking", "average", "summary"} :
                Contains(step_lower, k)
    THEN JStr("calculate_statistics")
    ELSE tool_name

\* The operation name the executor resolves.
ResolvedToolName(s) == AlignedToolName(SelectedToolName(s), current_task_text(s))

FilterKeys == {"category", "keyword", "min_price", "max_price", "min_rating", "max_rating", "limit"}

\* parameters["category"] from the step text, else the goal, when the
\* selection carries no filter at all.
SetCategoryHint(m, stepHint, goalHint) ==
    IF (\A k \in FilterKeys : Get(m, k).ty = "null")
       /\ (Truthy(stepHint) \/ Truthy(goalHint))
    THEN Put(m, "category", IF Truthy(stepHint) THEN stepHint ELSE goalHint)
    ELSE m

\* A category that is the whole goal sentence is dropped.
DropSentenceCategory(m, cat_val, user_goal) ==
    IF /\ cat_val.ty = "str"
       /\ looks_like_sentence(cat_val.s)
       /\ SameStrippedLower(cat_val.s, user_goal)
    THEN Pop(m, "category") ELSE m

\* parameters[key] = value when the key is absent and a value was found.
SetIfAbsent(m, key, value) ==
    IF key \notin DOMAIN m /\ value.ty # "null" THEN Put(m, key, value) ELSE m

\* `n is not None and n > 0`
PositiveOrNone(n) == IF n.ty # "null" /\ Truthy(n) THEN n ELSE JNull

\* The search_products repairs, on a parameter mapping m.
RepairCategory(m, s) ==
    Only({ DropSentenceCategory(m1, Get(m1, "category"), s.user_goal) :
             m1 \in {SetCategoryHint(m, _extract_category_hints(current_task_text(s)),
                                     _extract_category_hints(s.user_goal))} })

RepairSearch(m, s) ==
    Only({ SetIfAbsent(m3, "limit", PositiveOrNone(_extract_top_n(s.user_goal))) :
             m3 \in { SetIfAbsent(m2, "min_rating", MinRatingOf(s.user_goal)) :
                        m2 \in { SetIfAbsent(m1, "max_rating", MaxRatingOf(s.user_goal)) :
                                   m1 \in {RepairCategory(m, s)} } } })

\* The default operation of calculate_statistics.
RepairStatistics(m) ==
    IF "operation" \notin DOMAIN m THEN Put(m, "operation", JStr("summary")) ELSE m

\* Whether the step text holds a cue for analysis_type.
HasAnalysisCue(step_lower) ==
    \E k \in {"praise", "successful", "what makes", "theme", "complaint", "issue", "avoid"} :
        Contains(step_lower, k)

\* analysis_type from the step text when the parameters carry none.
RepairAnalysis(m, step_lower) ==
    IF "analysis_type" \in DOMAIN m THEN m
    ELSE IF \E k \in {"praise", "successful", "what makes"} : Contains(step_lower, k)
    THEN Put(m, "analysis_type", JStr("praise"))
    ELSE IF Contains(step_lower, "theme")
    THEN Put(m, "analysis_type", JStr("themes"))
    ELSE IF \E k \in {"complaint", "issue", "avoid"} : Contains(step_lower, k)
    THEN Put(m, "analysis_type", JStr("complaints"))
    ELSE m

\* top_n of a rating_ranking from "top N" in the goal.
RepairRanking(m, s) ==
    IF Get(m, "operation") = JStr("rating_ranking")
    THEN SetIfAbsent(m, "top_n", PositiveOrNone(_extract_top_n(s.user_goal)))
    ELSE m

\* The repairs before pipeline enforcement, in the code's order.
RepairParameters(tool_name, m, s) ==
    CASE NameIs(tool_name, "search_products") -> RepairSearch(m, s)
      [] NameIs(tool_name, "calculate_statistics") ->
            Only({ RepairRanking(m1, s) : m1 \in {RepairStatistics(m)} })
      [] NameIs(tool_name, "analyze_reviews") -> RepairAnalysis(m, current_task_text(s))
      [] OTHER -> m

\* last_search, had the scan run from the oldest record on.
last_search_earliest(tool_results) ==
    LET found == { i \in 1..Len(tool_results) :
                     /\ ~IsError(tool_results[i])
                     /\ tool_results[i].tool = "search_products" }
    IN  IF found = {} THEN NoResult
        ELSE tool_results[CHOOSE i \in found : \A j \in found : i <= j].result

\* The result of the most recent search_products record, or None.
last_search(tool_results) ==
    LET found == { i \in 1..Len(tool_results) :
                     /\ ~IsError(tool_results[i])
                     /\ tool_results[i].tool = "search_products" }
    IN  IF found = {} THEN NoResult
        ELSE tool_results[CHOOSE i \in found : \A j \in found : j <= i].result

\* product_names of a structured search result.
ProductNames(result) ==
    JList([i \in 1..Len(result.products) |-> JStr(result.products[i])])

\* RestrictToSearch, had it left the parameters alone when the search found
\* no product name.
RestrictToSearch_unless_empty(tool_name, m, ls) ==
    IF /\ ls.products # <<>>
       /\ \/ /\ NameIs(tool_name, "analyze_reviews")
             /\ "product_names" \notin DOMAIN m
             /\ "product_name" \notin DOMAIN m
          \/ /\ NameIs(tool_name, "calculate_statistics")
             /\ "product_names" \notin DOMAIN m
             /\ ~Truthy(Get(m, "categories"))
    THEN Put(m, "product_names", ProductNames(ls))
    ELSE m

\* Pipeline enforcement on a parameter mapping, for a structured last search.
RestrictToSearch(tool_name, m, ls) ==
    IF \/ /\ NameIs(tool_name, "analyze_reviews")
          /\ "product_names" \notin DOMAIN m
          /\ "product_name" \notin DOMAIN m
       \/ /\ NameIs(tool_name, "calculate_statistics")
          /\ "product_names" \notin DOMAIN m
          /\ ~Truthy(Get(m, "categories"))
    THEN Put(m, "product_names", ProductNames(ls))
    ELSE m

\* Parameters that are no mapping (a string, a list, a number): whether a
\* repair rule raises on them before pipeline enforcement.  .get raises
\* AttributeError, item assignment and `in` on a number raise TypeError.
RaisesBeforePipeline(tool_name, p, step_lower) ==
    /\ p.ty # "dict"
    /\ \/ NameIs(tool_name, "search_products")
       \/ NameIs(tool_name, "calculate_statistics")
       \/ /\ NameIs(tool_name, "analyze_reviews")
          /\ p.ty \notin {"str", "list"} \/ HasAnalysisCue(step_lower)

InPipeline(tool_name) ==
    NameIs(tool_name, "analyze_reviews") \/ NameIs(tool_name, "calculate_statistics")

\* The parameters after every repair and pipeline enforcement; parameters
\* that are no mapping are left as they are.
RepairedParameters(tool_name, p0, ls, s) ==
    IF p0.ty # "dict" THEN p0
    ELSE IF InPipeline(tool_name) /\ ls.type = "dict"
    THEN Only({ JDict(RestrictToSearch(tool_name, m, ls)) :
                  m \in {RepairParameters(tool_name, p0.map, s)} })
    ELSE JDict(RepairParameters(tool_name, p0.map, s))

Decision(b, tool_name, parameters, msg) ==
    [branch |-> b, tool_name |-> tool_name, parameters |-> parameters, error |-> msg]

\* Decide, had it not looked the name up in TOOL_MAP before the call.
Decide_unchecked(s, tool_name, p0, p, ls) ==
    IF RaisesBeforePipeline(tool_name, p0, current_task_text(s))
    THEN Decision("exception", tool_name, p, <<"Tool execution error: ", "parameters is no mapping">>)
    ELSE IF InPipeline(tool_name) /\ ls.type = "dict" /\ p0.ty # "dict"
    THEN Decision("exception", tool_name, p, <<"Tool execution error: ", "parameters is no mapping">>)
    ELSE IF InPipeline(tool_name) /\ ls.type = "str"
    THEN Decision("pipeline", tool_name, p, <<"Search did not produce a product subset: ", ls.text>>)
    ELSE IF ~Truthy(tool_name)
    THEN Decision("missing_name", tool_name, p, <<"Tool selection missing tool name">>)
    ELSE IF _find_duplicate_result(tool_name.s, p, s.tool_results) # NoResult
    THEN Decision("duplicate", tool_name, p, <<>>)
    ELSE Decision("invoke", tool_name, p, <<>>)

\* Decide, had it gone on when the last search left a plain string.
Decide_no_pipeline_stop(s, tool_name, p0, p, ls) ==
    IF RaisesBeforePipeline(tool_name, p0, current_task_text(s))
    THEN Decision("exception", tool_name, p, <<"Tool execution error: ", "parameters is no mapping">>)
    ELSE IF InPipeline(tool_name) /\ ls.type = "dict" /\ p0.ty # "dict"
    THEN Decision("exception", tool_name, p, <<"Tool execution error: ", "parameters is no mapping">>)
    ELSE IF ~Truthy(tool_name)
    THEN Decision("missing_name", tool_name, p, <<"Tool selection missing tool name">>)
    ELSE IF ~(tool_name.ty = "str" /\ tool_name.s \in TOOL_MAP)
    THEN Decision("unknown_tool", tool_name, p, <<"Unknown tool: ", tool_name.s>>)
    ELSE IF _find_duplicate_result(tool_name.s, p, s.tool_results) # NoResult
    THEN Decision("duplicate", tool_name, p, <<>>)
    ELSE Decision("invoke", tool_name, p, <<>>)

\* Decide, had it stopped an analysis or statistics step whenever no search
\* left a product subset, an absent search included.
Decide_requiring_search(s, tool_name, p0, p, ls) ==
    IF RaisesBeforePipeline(tool_name, p0, current_task_text(s))
    THEN Decision("exception", tool_name, p, <<"Tool execution error: ", "parameters is no mapping">>)
    ELSE IF InPipeline(tool_name) /\ ls.type = "dict" /\ p0.ty # "dict"
    THEN Decision("exception", tool_name, p, <<"Tool execution error: ", "parameters is no mapping">>)
    ELSE IF InPipeline(tool_name) /\ ls.type # "dict"
    THEN Decision("pipeline", tool_name, p, <<"Search did not produce a product subset: ", "None">>)
    ELSE IF ~Truthy(tool_name)
    THEN Decision("missing_name", tool_name, p, <<"Tool selection missing tool name">>)
    ELSE IF ~(tool_name.ty = "str" /\ tool_name.s \in TOOL_MAP)
    THEN Decision("unknown_tool", tool_name, p, <<"Unknown tool: ", tool_name.s>>)
    ELSE IF _find_duplicate_result(tool_name.s, p, s.tool_results) # NoResult
    THEN Decision("duplicate", tool_name, p, <<>>)
    ELSE Decision("invoke", tool_name, p, <<>>)

\* The returns of the executor once the selection has parsed, in the
\* code's order: tool_name is the resolved name, p0 the selected parameters,
\* p the repaired ones, ls the result of the last search.
Decide(s, tool_name, p0, p, ls) ==
    IF RaisesBeforePipeline(tool_name, p0, current_task_text(s))
    THEN Decision("exception", tool_name, p, <<"Tool execution error: ", "parameters is no mapping">>)
    ELSE IF InPipeline(tool_name) /\ ls.type = "dict" /\ p0.ty # "dict"
    THEN Decision("exception", tool_name, p, <<"Tool execution error: ", "parameters is no mapping">>)
    ELSE IF InPipeline(tool_name) /\ ls.type = "str"
    THEN Decision("pipeline", tool_name, p, <<"Search did not produce a product subset: ", ls.text>>)
    ELSE IF ~Truthy(tool_name)
    THEN Decision("missing_name", tool_name, p, <<"Tool selection missing tool name">>)
    ELSE IF ~(tool_name.ty = "str" /\ tool_name.s \in TOOL_MAP)
    THEN Decision("unknown_tool", tool_name, p, <<"Unknown tool: ", tool_name.s>>)
    ELSE IF _find_duplicate_result(tool_name.s, p, s.tool_results) # NoResult
    THEN Decision("duplicate", tool_name, p, <<>>)
    ELSE Decision("invoke", tool_name, p, <<>>)

DecideRepaired(s, tool_name, p0, ls) ==
    Only({ Decide(s, tool_name, p0, p, ls) :
             p \in {RepairedParameters(tool_name, p0, ls, s)} })

\* Resolve, had it fallen back to a search when the text holds no object.
Resolve_guessing(s) ==
    IF json_match(s.intermediate_analysis) = <<>>
    THEN Decision("invoke", JStr("search_products"), JDict(EmptyMap), <<>>)
    ELSE IF ~json_loads(MatchGroup(s.intermediate_analysis)).ok
    THEN Decision("json_error", JNull, JDict(EmptyMap),
                  <<"JSON parsing error: ", "Expecting property name">>)
    ELSE Only({ DecideRepaired(s, tool_name, p0, ls) :
                  tool_name \in {ResolvedToolName(s)},
                  p0 \in {SelectedParameters(s)},
                  ls \in {last_search(s.tool_results)} })

\* What the executor decides before it invokes anything: the return it
\* takes (branch), the resolved name and parameters, the error message.
Resolve(s) ==
    IF json_match(s.intermediate_analysis) = <<>>
    THEN Decision("no_match", JNull, JDict(EmptyMap), <<"Failed to parse tool selection">>)
    ELSE IF ~json_loads(MatchGroup(s.intermediate_analysis)).ok
    THEN Decision("json_error", JNull, JDict(EmptyMap),
                  <<"JSON parsing error: ", "Expecting property name">>)
    ELSE Only({ DecideRepaired(s, tool_name, p0, ls) :
                  tool_name \in {ResolvedToolName(s)},
                  p0 \in {SelectedParameters(s)},
                  ls \in {last_search(s.tool_results)} })

\* The returns that append an error record without invoking anything.
FatalBranches == {"no_match", "json_error", "exception", "pipeline", "missing_name", "unknown_tool"}

\* ErrorReturn, had the error paths advanced the step as the result paths do.
ErrorReturnAdvancing(s, msg) ==
    [s EXCEPT !.tool_results = Append(@, ErrorRecord(msg)),
              !.needs_more_info = FALSE,
              !.current_step = s.current_step + 1]

\* ErrorReturn, had the error paths reported the failure as the answer.
ErrorReturnWithAnswer(s, msg) ==
    [s EXCEPT !.tool_results = Append(@, ErrorRecord(msg)),
              !.needs_more_info = FALSE,
              !.final_answer = JStr("Unable to generate a response. Please try again.")]

\* ErrorReturn, had the error paths recorded nothing.
ErrorReturnSilent(s, msg) ==
    [s EXCEPT !.needs_more_info = FALSE]

\* The return of every error path: one error record, needs_more_info False.
ErrorReturn(s, msg) ==
    [s EXCEPT !.tool_results = Append(@, ErrorRecord(msg)),
              !.needs_more_info = FALSE]

\* ResultReturn, had it left the step where it was.
ResultReturnNoAdvance(s, tool, parameters, result) ==
    [s EXCEPT !.tool_results =
                  Append(@, ResultRecord(s.current_step + 1, tool, parameters, result))]

\* ResultReturn, had the record carried the step index before the advance.
ResultReturnIndexBefore(s, tool, parameters, result) ==
    [s EXCEPT !.tool_results =
                  Append(@, ResultRecord(s.current_step, tool, parameters, result)),
              !.current_step = s.current_step + 1]

\* The return of the dedup and execution paths: one result record, and
\* current_step advanced by one.
ResultReturn(s, tool, parameters, result) ==
    [s EXCEPT !.tool_results =
                  Append(@, ResultRecord(s.current_step + 1, tool, parameters, result)),
              !.current_step = s.current_step + 1]

\* The return tool_executor_node takes: the decision r, or for an invocation
\* whether tool.invoke returned or raised.
BranchOf(r, outcome) ==
    IF r.branch # "invoke" THEN r.branch
    ELSE IF outcome.type = "raise" THEN "invoke_raised" ELSE "invoke_ok"

\* tool_executor_node, had a reused result been recorded without advancing
\* the step.
tool_executor_node_reuse_in_place(s, r, outcome) ==
    CASE r.branch \in FatalBranches -> ErrorReturn(s, r.error)
      [] r.branch = "duplicate" ->
            [s EXCEPT !.tool_results =
                 Append(@, ResultRecord(s.current_step + 1, r.tool_name.s, r.parameters,
                           _find_duplicate_result(r.tool_name.s, r.parameters, s.tool_results)))]
      [] r.branch = "invoke" /\ outcome.type = "raise" ->
            ErrorReturn(s, <<"Tool execution error: ", outcome.text>>)
      [] r.branch = "invoke" /\ outcome.type # "raise" ->
            ResultReturn(s, r.tool_name.s, r.parameters, outcome)

\* tool_executor_node: the state it returns, r being Resolve(s) and outcome
\* what tool.invoke gives when it is called.
tool_executor_node(s, r, outcome) ==
    CASE r.branch \in FatalBranches -> ErrorReturn(s, r.error)
      [] r.branch = "duplicate" ->
            ResultReturn(s, r.tool_name.s, r.parameters,
                         _find_duplicate_result(r.tool_name.s, r.parameters, s.tool_results))
      [] r.branch = "invoke" /\ outcome.type = "raise" ->
            ErrorReturn(s, <<"Tool execution error: ", outcome.text>>)
      [] r.branch = "invoke" /\ outcome.type # "raise" ->
            ResultReturn(s, r.tool_name.s, r.parameters, outcome)

----------------------------------------------------------------------------
(* The other nodes and the conditional edge. *)

\* The plan the planner parses from the oracle's response: the JSON array
\* when one is found and parses, else the non-blank lines.
ParsePlan(response) ==
    IF response.array = "valid" THEN response.items ELSE response.lines

\* planner_node, had it started the counter at 0.
planner_node_counting_from_zero(s, response) ==
    [s EXCEPT !.plan = ParsePlan(response),
              !.current_step = 0,
              !.iteration_count = 0]

\* planner_node
planner_node(s, response) ==
    [s EXCEPT !.plan = ParsePlan(response),
              !.current_step = 0,
              !.iteration_count = s.iteration_count + 1]

\* tool_selector_node returns early, without asking the oracle.
SelectorShortCircuits(s) == s.current_step >= Len(s.plan)

\* tool_selector_node, had it taken the step at hand off the plan.
tool_selector_node_consuming(s, response) ==
    IF SelectorShortCircuits(s)
    THEN [s EXCEPT !.needs_more_info = FALSE]
    ELSE [s EXCEPT !.intermediate_analysis = response,
                   !.needs_more_info = TRUE,
                   !.plan = Tail(s.plan)]

\* tool_selector_node, had it asked the oracle whatever the step index.
tool_selector_node_always_asking(s, response) ==
    [s EXCEPT !.intermediate_analysis = response,
              !.needs_more_info = TRUE]

\* tool_selector_node
tool_selector_node(s, response) ==
    IF SelectorShortCircuits(s)
    THEN [s EXCEPT !.needs_more_info = FALSE]
    ELSE [s EXCEPT !.intermediate_analysis = response,
                   !.needs_more_info = TRUE]

\* analyzer_node, had it asked for the failed step again.
analyzer_node_retrying(s) ==
    IF s.tool_results # <<>> /\ IsError(s.tool_results[Len(s.tool_results)])
    THEN [s EXCEPT !.needs_more_info = TRUE]
    ELSE IF s.current_step < Len(s.plan)
    THEN [s EXCEPT !.needs_more_info = TRUE,
                   !.iteration_count = s.iteration_count + 1]
    ELSE [s EXCEPT !.needs_more_info = FALSE,
                   !.iteration_count = s.iteration_count + 1]

\* analyzer_node, had it not halted on an error record.
analyzer_node_no_error_halt(s) ==
    IF s.current_step < Len(s.plan)
    THEN [s EXCEPT !.needs_more_info = TRUE,
                   !.iteration_count = s.iteration_count + 1]
    ELSE [s EXCEPT !.needs_more_info = FALSE,
                   !.iteration_count = s.iteration_count + 1]

\* analyzer_node
analyzer_node(s) ==
    IF s.tool_results # <<>> /\ IsError(s.tool_results[Len(s.tool_results)])
    THEN [s EXCEPT !.needs_more_info = FALSE]
    ELSE IF s.current_step < Len(s.plan)
    THEN [s EXCEPT !.needs_more_info = TRUE,
                   !.iteration_count = s.iteration_count + 1]
    ELSE [s EXCEPT !.needs_more_info = FALSE,
                   !.iteration_count = s.iteration_count + 1]

\* should_continue, had it not read the ceiling.
should_continue_no_ceiling(s, max_iterations) ==
    IF s.needs_more_info /\ s.current_step < Len(s.plan) THEN "tool_selector"
    ELSE "synthesizer"

\* should_continue, had it not read needs_more_info.
should_continue_no_flag(s, max_iterations) ==
    IF s.iteration_count >= max_iterations THEN "synthesizer"
    ELSE IF s.current_step < Len(s.plan) THEN "tool_selector"
    ELSE "synthesizer"

\* should_continue, had a step left been enough to go on without the flag.
should_continue_flag_or_steps(s, max_iterations) ==
    IF s.iteration_count >= max_iterations THEN "synthesizer"
    ELSE IF s.needs_more_info \/ s.current_step < Len(s.plan) THEN "tool_selector"
    ELSE "synthesizer"

\* should_continue, had it stopped only past the ceiling.
should_continue_past_ceiling(s, max_iterations) ==
    IF s.iteration_count > max_iterations THEN "synthesizer"
    ELSE IF s.needs_more_info /\ s.current_step < Len(s.plan) THEN "tool_selector"
    ELSE "synthesizer"

\* should_continue, the conditional edge after the analyzer.
should_continue(s, max_iterations) ==
    IF s.iteration_count >= max_iterations THEN "synthesizer"
    ELSE IF s.needs_more_info /\ s.current_step < Len(s.plan) THEN "tool_selector"
    ELSE "synthesizer"

\* synthesizer_node
synthesizer_node(s, response) ==
    [s EXCEPT !.final_answer = JStr(response),
              !.needs_more_info = FALSE]

\* The edges of the graph out of each node but the analyzer.
EdgeFrom(node) ==
    CASE node = "START" -> "planner"
      [] node = "planner" -> "tool_selector"
      [] node = "tool_selector" -> "tool_executor"
      [] node = "tool_executor" -> "analyzer"
      [] node = "synthesizer" -> "END"

----------------------------------------------------------------------------
(* The oracle's responses. *)

RECURSIVE SeqsUpTo(_, _)
SeqsUpTo(S, n) ==
    IF n = 0 THEN {<<>>}
    ELSE LET shorter == SeqsUpTo(S, n - 1)
         IN  shorter \cup { Append(q, x) : q \in shorter, x \in S }

\* A planner response: a JSON array that parses ("valid", its elements in
\* items), a text without brackets ("none", its non-blank lines in lines), or
\* a bracketed text that does not parse ("invalid": the line "[draft]" and
\* then one line for each step).  The field the code does not read is empty.
PlannerResponses ==
    { [array |-> "valid", items |-> q, lines |-> <<>>] : q \in SeqsUpTo(PlanSteps, MaxPlanLen) }
    \cup { [array |-> "none", items |-> <<>>, lines |-> q] : q \in SeqsUpTo(PlanSteps, MaxPlanLen) }
    \cup { [array |-> "invalid", items |-> <<>>, lines |-> <<StepDraft>> \o q] :
             q \in SeqsUpTo(PlanSteps, MaxPlanLen - 1) }

SynthesizerResponses == {"Here is what the data shows.", ""}

----------------------------------------------------------------------------
(* The run. *)

\* initial_state of run_agent
initial_state(goal) ==
    [ user_goal |-> goal,
      plan |-> <<>>,
      current_step |-> 0,
      tool_results |-> <<>>,
      intermediate_analysis |-> <<>>,
      final_answer |-> JNull,
      iteration_count |-> 0,
      needs_more_info |-> TRUE ]

\* No helper is called on its own during a run.
NoProbe == [fn |-> "none"]

NoTrace ==
    [ planner |-> 0, selector |-> 0, executor |-> 0, invocations |-> 0,
      reuses |-> 0, analyzer |-> 0, synthesizer |-> 0 ]

Init ==
    /\ MAX_ITERATIONS \in 0..MaxCeiling
    /\ \E goal \in Goals : state = initial_state(goal)
    /\ pc = EdgeFrom("START")
    /\ lastNode = "START"
    /\ lastBranch = "none"
    /\ trace = NoTrace
    /\ probe = NoProbe

Planner ==
    /\ pc = "planner"
    /\ \E response \in PlannerResponses : state' = planner_node(state, response)
    /\ pc' = EdgeFrom("planner")
    /\ lastNode' = "planner"
    /\ trace' = [trace EXCEPT !.planner = @ + 1]
    /\ UNCHANGED <<MAX_ITERATIONS, lastBranch, probe>>

ToolSelector ==
    /\ pc = "tool_selector"
    /\ \E response \in SelectorTexts : state' = tool_selector_node(state, response)
    /\ pc' = EdgeFrom("tool_selector")
    /\ lastNode' = "tool_selector"
    /\ trace' = [trace EXCEPT !.selector = @ + 1]
    /\ UNCHANGED <<MAX_ITERATIONS, lastBranch, probe>>

\* The outcomes tool.invoke can have for decision r; when nothing is invoked
\* the outcome is not read.
OutcomesFor(r) ==
    IF r.branch = "invoke" THEN ToolOutcomes(r.tool_name.s) ELSE {Raised}

\* The counters after an executor pass that took decision r.
Counted(t, r) ==
    [t EXCEPT !.executor = @ + 1,
              !.invocations = IF r.branch = "invoke" THEN @ + 1 ELSE @,
              !.reuses = IF r.branch = "duplicate" THEN @ + 1 ELSE @]

\* One pass of tool_executor, of a run whose plans hold at most cap steps.
ExecutorPass(cap) ==
    /\ pc = "tool_executor"
    /\ Len(state.tool_results) < cap
    /\ \E r \in {Resolve(state)} :
        /\ \E outcome \in OutcomesFor(r) :
              /\ state' = tool_executor_node(state, r, outcome)
              /\ lastBranch' = BranchOf(r, outcome)
        /\ trace' = Counted(trace, r)
    /\ pc' = EdgeFrom("tool_executor")
    /\ lastNode' = "tool_executor"
    /\ UNCHANGED <<MAX_ITERATIONS, probe>>

ToolExecutor == ExecutorPass(MaxPlanLen)

Analyzer ==
    /\ pc = "analyzer"
    /\ state' = analyzer_node(state)
    /\ pc' = should_continue(state', MAX_ITERATIONS)
    /\ lastNode' = "analyzer"
    /\ trace' = [trace EXCEPT !.analyzer = @ + 1]
    /\ UNCHANGED <<MAX_ITERATIONS, lastBranch, probe>>

Synthesizer ==
    /\ pc = "synthesizer"
    /\ \E response \in SynthesizerResponses : state' = synthesizer_node(state, response)
    /\ pc' = EdgeFrom("synthesizer")
    /\ lastNode' = "synthesizer"
    /\ trace' = [trace EXCEPT !.synthesizer = @ + 1]
    /\ UNCHANGED <<MAX_ITERATIONS, lastBranch, probe>>

Next == Planner \/ ToolSelector \/ ToolExecutor \/ Analyzer \/ Synthesizer

Spec == Init /\ [][Next]_vars

\* Every oracle call and every operation call returns: the graph always
\* runs the node it has scheduled.
FairSpec == Spec /\ WF_vars(Next)

----------------------------------------------------------------------------
(* The value run_agent returns once the graph has reached END.             *)

APOLOGY == "Unable to generate a response. Please try again."

\* run_agent_return, had it handed the synthesizer's answer back as it is.
run_agent_return_unchecked(s) == s.final_answer

\* The return of run_agent: the final_answer of the last event when it is
\* truthy, else the apology.
run_agent_return(s) ==
    IF Truthy(s.final_answer) THEN s.final_answer ELSE JStr(APOLOGY)

Return ==
    /\ pc = "END" /\ probe = NoProbe
    /\ probe' = [fn |-> "run_agent", out |-> <<run_agent_return(state)>>]
    /\ UNCHANGED <<state, pc, MAX_ITERATIONS, lastNode, lastBranch, trace>>

ReturnNext == Next \/ Return

ReturnSpec == Init /\ [][ReturnNext]_vars

----------------------------------------------------------------------------
(* Runs of a plan that searches twice or more, each time another category, *)
(* and then analyses: the history of the last step holds several search    *)
(* records.  The ceiling is the default of config.py.                      *)

DEFAULT_MAX_ITERATIONS == 10

PipelineLen == MaxPlanLen + 1

\* Search steps that alternate between the two categories, then one
\* analysis or statistics step.
PipelinePlans ==
    { [i \in 1..PipelineLen |->
          IF i = PipelineLen THEN last
          ELSE IF i % 2 = 1 THEN StepSearch ELSE StepSearchClothing] :
      last \in {StepReviews, StepStats, StepComplaintsFail, StepReviewSummary} }

PipelineResponses ==
    { [array |-> "valid", items |-> q, lines |-> <<>>] : q \in PipelinePlans }

PipelineInit ==
    /\ MAX_ITERATIONS = DEFAULT_MAX_ITERATIONS
    /\ \E goal \in Goals : state = initial_state(goal)
    /\ pc = EdgeFrom("START")
    /\ lastNode = "START"
    /\ lastBranch = "none"
    /\ trace = NoTrace
    /\ probe = NoProbe

PipelinePlanner ==
    /\ pc = "planner"
    /\ \E response \in PipelineResponses : state' = planner_node(state, response)
    /\ pc' = EdgeFrom("planner")
    /\ lastNode' = "planner"
    /\ trace' = [trace EXCEPT !.planner = @ + 1]
    /\ UNCHANGED <<MAX_ITERATIONS, lastBranch, probe>>

PipelineExecutor == ExecutorPass(PipelineLen)

PipelineNext ==
    PipelinePlanner \/ ToolSelector \/ PipelineExecutor \/ Analyzer \/ Synthesizer

PipelineSpec == PipelineInit /\ [][PipelineNext]_vars

----------------------------------------------------------------------------
(* The category comparison scenario: the goal is GoalCompare, the plan has *)
(* two steps, the selector answers with TextSearchCompare at the first     *)
(* step and TextStatsCompare at the second.                                *)

ScenarioSteps == PlanSteps \cup {StepSearchClothing, StepSearchBoth}

ScenarioResponses ==
    { [array |-> "valid", items |-> <<a, b>>, lines |-> <<>>] :
        a \in ScenarioSteps, b \in ScenarioSteps }

\* What the selector oracle answers at the step at hand.
ScenarioSelection(s) ==
    IF s.current_step = 0 THEN TextSearchCompare ELSE TextStatsCompare

ScenarioInit ==
    /\ MAX_ITERATIONS = DEFAULT_MAX_ITERATIONS
    /\ state = initial_state(GoalCompare)
    /\ pc = EdgeFrom("START")
    /\ lastNode = "START"
    /\ lastBranch = "none"
    /\ trace = NoTrace
    /\ probe = NoProbe

ScenarioPlanner ==
    /\ pc = "planner"
    /\ \E response \in ScenarioResponses : state' = planner_node(state, response)
    /\ pc' = EdgeFrom("planner")
    /\ lastNode' = "planner"
    /\ trace' = [trace EXCEPT !.planner = @ + 1]
    /\ UNCHANGED <<MAX_ITERATIONS, lastBranch, probe>>

ScenarioSelector ==
    /\ pc = "tool_selector"
    /\ state' = tool_selector_node(state, ScenarioSelection(state))
    /\ pc' = EdgeFrom("tool_selector")
    /\ lastNode' = "tool_selector"
    /\ trace' = [trace EXCEPT !.selector = @ + 1]
    /\ UNCHANGED <<MAX_ITERATIONS, lastBranch, probe>>

ScenarioNext ==
    ScenarioPlanner \/ ScenarioSelector \/ PipelineExecutor \/ Analyzer \/ Synthesizer

ScenarioSpec == ScenarioInit /\ [][ScenarioNext]_vars

----------------------------------------------------------------------------
(* _norm on its own: two parameter objects, as json.loads reads them, that   *)
(* differ only in the order of their keys and of the elements of their     *)
(* lists.                                                                  *)

\* The scalars of the lists: the number 1, the string "1", two names.
ListElements == {JNum("1"), JStr("1"), JStr("Printer A"), JStr("Speaker B")}

\* The list values of the parameter objects.
ListValues == { JList(q) : q \in SeqsUpTo(ListElements, MaxListLen) }

\* The parameter objects, as sequences of <<key, value>> members in the
\* order of the text.
ParameterObjects ==
    { <<<<"product_names", v>>>> : v \in ListValues }
    \cup { <<<<"product_names", v>>, <<"categories", w>>>> : v \in ListValues, w \in {JList(<<>>), JList(<<JStr("Printer A")>>)} }

\* The permutations of 1..n.
Perms(n) == { p \in [1..n -> 1..n] : \A i, j \in 1..n : p[i] = p[j] => i = j }

\* The sequences that hold the elements of xs in another order.
Reordered(xs) == { [i \in 1..Len(xs) |-> xs[p[i]]] : p \in Perms(Len(xs)) }

\* The objects that differ from members only in the order of the keys and
\* of the elements of the lists.
ReorderedObjects(members) ==
    IF Len(members) = 1
    THEN { <<<<members[1][1], JList(q)>>>> : q \in Reordered(members[1][2].items) }
    ELSE UNION { { <<<<members[p[1]][1], JList(q1)>>, <<members[p[2]][1], JList(q2)>>>> :
                     q1 \in Reordered(members[p[1]][2].items),
                     q2 \in Reordered(members[p[2]][2].items) } :
                 p \in Perms(2) }

\* The dict json.loads builds from the members.
FromMembers(members) ==
    JDict([k \in { members[i][1] : i \in 1..Len(members) } |->
             members[CHOOSE i \in 1..Len(members) : members[i][1] = k][2]])

NormInit ==
    /\ MAX_ITERATIONS = MaxCeiling
    /\ state = initial_state(GoalTop)
    /\ pc = EdgeFrom("START")
    /\ lastNode = "START"
    /\ lastBranch = "none"
    /\ trace = NoTrace
    /\ \E a \in ParameterObjects : \E b \in ReorderedObjects(a) :
          probe = [fn |-> "_norm", a |-> a, b |-> b, out |-> <<>>]

\* target = _norm(params), for each of the two objects.
ApplyNorm ==
    /\ probe.fn = "_norm" /\ probe.out = <<>>
    /\ probe' = [probe EXCEPT !.out = <<_norm(FromMembers(probe.a)),
                                         _norm(FromMembers(probe.b))>>]
    /\ UNCHANGED <<state, pc, MAX_ITERATIONS, lastNode, lastBranch, trace>>

NormNext == ApplyNorm

NormSpec == NormInit /\ [][NormNext]_vars

----------------------------------------------------------------------------
(* _format_result of the synthesizer on its own.  A text is modelled by   *)
(* its length in characters; a result is a mapping with a summary field,   *)
(* a mapping without one, or a string, with the length of the summary or   *)
(* of str(result).                                                         *)

\* The character budget of _format_result and the length of the marker
\* "\n...(truncated)" it appends.
FORMAT_BUDGET == 3000
TRUNCATION_MARKER_LEN == 15

\* How far the lengths tried lie from the budget, on either side.
MaxExcess == 20

FormatInputs ==
    { [kind |-> kind, len |-> n] :
        kind \in {"dict_summary", "dict_other", "str"},
        n \in (FORMAT_BUDGET - MaxExcess)..(FORMAT_BUDGET + MaxExcess) }

\* text if len(text) <= 3000 else text[:3000] + "\n...(truncated)"
Truncated(len) ==
    IF len <= FORMAT_BUDGET THEN len ELSE FORMAT_BUDGET + TRUNCATION_MARKER_LEN

\* _format_result(res): the length of the text it returns.
_format_result(res) ==
    IF res.kind = "dict_summary" THEN res.len ELSE Truncated(res.len)

FormatInit ==
    /\ MAX_ITERATIONS = DEFAULT_MAX_ITERATIONS
    /\ state = initial_state(GoalTop)
    /\ pc = EdgeFrom("START")
    /\ lastNode = "START"
    /\ lastBranch = "none"
    /\ trace = NoTrace
    /\ \E res \in FormatInputs : probe = [fn |-> "_format_result", res |-> res, out |-> <<>>]

ApplyFormat ==
    /\ probe.fn = "_format_result" /\ probe.out = <<>>
    /\ probe' = [probe EXCEPT !.out = <<_format_result(probe.res)>>]
    /\ UNCHANGED <<state, pc, MAX_ITERATIONS, lastNode, lastBranch, trace>>

FormatSpec == FormatInit /\ [][ApplyFormat]_vars

----------------------------------------------------------------------------
(* main of main.py: the command line, the credential, the three modes and  *)
(* the exit code of the process.  An exception nobody catches ends the     *)
(* process with code 1.                                                    *)

\* len(example_queries) of run_example_queries
EXAMPLE_COUNT == 3

\* The lines typed in interactive mode before the model stops reading.
MaxInputs == 2

\* args and the credential: --graph, --query (absent, empty, a text),
\* --example, CLAUDE_API_KEY ("" when the variable is not set).
MainArgs ==
    { [graph |-> g, query |-> q, example |-> e, key |-> k] :
        g \in BOOLEAN, q \in {JNull, JStr(""), JStr(GoalTop)}, e \in BOOLEAN,
        k \in {"", "sk-ant-key"} }

\* What input() gives in interactive mode; "^C" is KeyboardInterrupt and
\* "EOF" the end of the input (EOFError).
MainInputs == {"", "quit", "help", "graph", GoalTop, "^C", "EOF"}

AtExit(code) == [at |-> "exit", code |-> code]
AtMode(mode) == [at |-> mode, code |-> -1]

\* main_dispatch, had the credential been checked before --graph.
main_dispatch_key_first(args) ==
    IF args.key = "" THEN AtExit(1)
    ELSE IF args.graph THEN AtExit(0)
    ELSE IF Truthy(args.query) THEN AtMode("query")
    ELSE IF args.example THEN AtMode("example")
    ELSE AtMode("interactive")

\* main from parse_args to the choice of the mode.
main_dispatch(args) ==
    IF args.graph THEN AtExit(0)
    ELSE IF args.key = "" THEN AtExit(1)
    ELSE IF Truthy(args.query) THEN AtMode("query")
    ELSE IF args.example THEN AtMode("example")
    ELSE AtMode("interactive")

MainInit ==
    /\ MAX_ITERATIONS = DEFAULT_MAX_ITERATIONS
    /\ state = initial_state(GoalTop)
    /\ pc = EdgeFrom("START")
    /\ lastNode = "START"
    /\ lastBranch = "none"
    /\ trace = NoTrace
    /\ \E args \in MainArgs :
          probe = [fn |-> "main", args |-> args, at |-> "start", code |-> -1,
                   done |-> 0, runs |-> 0, errors |-> 0, crashed |-> FALSE]

MainStart ==
    /\ probe.fn = "main" /\ probe.at = "start"
    /\ probe' = [probe EXCEPT !.at = main_dispatch(probe.args).at,
                              !.code = main_dispatch(probe.args).code]
    /\ UNCHANGED <<state, pc, MAX_ITERATIONS, lastNode, lastBranch, trace>>

\* What a call of run_agent does: it returns, raises an Exception, or is
\* interrupted ("^C", KeyboardInterrupt, which `except Exception` lets through).
RunOutcomes == {"returned", "raised", "^C"}

\* run_agent(args.query), then return; nothing of run_agent is caught: an
\* Exception ends the process with code 1, KeyboardInterrupt with SIGINT (-2).
MainQuery ==
    /\ probe.fn = "main" /\ probe.at = "query"
    /\ \E outcome \in RunOutcomes :
          probe' = [probe EXCEPT !.at = "exit",
                                !.code = CASE outcome = "returned" -> 0
                                           [] outcome = "raised" -> 1
                                           [] outcome = "^C" -> -2,
                                !.runs = @ + 1,
                                !.crashed = outcome # "returned"]
    /\ UNCHANGED <<state, pc, MAX_ITERATIONS, lastNode, lastBranch, trace>>

\* run_example_queries: one example, its Exception caught and
\* KeyboardInterrupt not; then the pause when an example is left, the return
\* after the last.
MainExample ==
    /\ probe.fn = "main" /\ probe.at = "example"
    /\ \E outcome \in RunOutcomes :
          IF outcome = "^C"
          THEN probe' = [probe EXCEPT !.runs = @ + 1, !.at = "exit", !.code = -2,
                                      !.crashed = TRUE]
          ELSE probe' = [probe EXCEPT
                           !.done = @ + 1,
                           !.runs = @ + 1,
                           !.errors = IF outcome = "raised" THEN @ + 1 ELSE @,
                           !.at = IF probe.done + 1 = EXAMPLE_COUNT THEN "exit" ELSE "pause",
                           !.code = IF probe.done + 1 = EXAMPLE_COUNT THEN 0 ELSE @]
    /\ UNCHANGED <<state, pc, MAX_ITERATIONS, lastNode, lastBranch, trace>>

\* The pause between two examples: input() outside every try.  A line goes
\* on to the next example, end of file raises EOFError (code 1), and
\* KeyboardInterrupt ends the process with SIGINT (-2).
MainPause ==
    /\ probe.fn = "main" /\ probe.at = "pause"
    /\ \E line \in {"", "EOF", "^C"} :
          probe' = CASE line = "" -> [probe EXCEPT !.at = "example"]
                     [] line = "EOF" -> [probe EXCEPT !.at = "exit", !.code = 1, !.crashed = TRUE]
                     [] line = "^C" -> [probe EXCEPT !.at = "exit", !.code = -2, !.crashed = TRUE]
    /\ UNCHANGED <<state, pc, MAX_ITERATIONS, lastNode, lastBranch, trace>>

\* run_interactive_mode: one line read inside the try.  "quit" and
\* KeyboardInterrupt (at the prompt or inside run_agent) leave the loop;
\* every other line, end of file (EOFError is an Exception) and every
\* Exception of run_agent continue.
MainInteractive ==
    /\ probe.fn = "main" /\ probe.at = "interactive"
    /\ \E line \in MainInputs :
          IF line \in {"quit", "^C"}
          THEN probe' = [probe EXCEPT !.at = "exit", !.code = 0]
          ELSE IF line \in {"", "help", "graph", "EOF"}
          THEN /\ probe.done < MaxInputs
               /\ probe' = [probe EXCEPT !.done = @ + 1]
          ELSE \E outcome \in RunOutcomes :
                  IF outcome = "^C"
                  THEN probe' = [probe EXCEPT !.runs = @ + 1, !.at = "exit", !.code = 0]
                  ELSE /\ probe.done < MaxInputs
                       /\ probe' = [probe EXCEPT
                                      !.done = @ + 1,
                                      !.runs = @ + 1,
                                      !.errors = IF outcome = "raised" THEN @ + 1 ELSE @]
    /\ UNCHANGED <<state, pc, MAX_ITERATIONS, lastNode, lastBranch, trace>>

MainNext == MainStart \/ MainQuery \/ MainExample \/ MainPause \/ MainInteractive

MainSpec == MainInit /\ [][MainNext]_vars

----------------------------------------------------------------------------
(* calculate_statistics on its own: the products its statistics are        *)
(* computed over, for a dataset and a product_names argument.              *)

CatalogNames == {"Printer A", "Speaker B", "Lamp C"}

\* The unique products of the dataset and the product_names argument (None
\* when it is not passed).
StatisticsInputs ==
    { [unique_products |-> d, product_names |-> v] :
        d \in SUBSET CatalogNames,
        v \in {JNull} \cup { JList(q) : q \in SeqsUpTo({ JStr(n) : n \in CatalogNames },
                                                       MaxListLen) } }

\* unique_products after `if product_names: unique_products =
\* unique_products[unique_products["product_name"].isin(product_names)]`.
unique_products_in_scope(inp) ==
    IF Truthy(inp.product_names)
    THEN { n \in inp.unique_products :
             \E i \in 1..Len(inp.product_names.items) : inp.product_names.items[i] = JStr(n) }
    ELSE inp.unique_products

StatisticsInit ==
    /\ MAX_ITERATIONS = DEFAULT_MAX_ITERATIONS
    /\ state = initial_state(GoalTop)
    /\ pc = EdgeFrom("START")
    /\ lastNode = "START"
    /\ lastBranch = "none"
    /\ trace = NoTrace
    /\ \E inp \in StatisticsInputs :
          probe = [fn |-> "calculate_statistics", inp |-> inp, out |-> <<>>]

ApplyStatistics ==
    /\ probe.fn = "calculate_statistics" /\ probe.out = <<>>
    /\ probe' = [probe EXCEPT !.out = <<unique_products_in_scope(probe.inp)>>]
    /\ UNCHANGED <<state, pc, MAX_ITERATIONS, lastNode, lastBranch, trace>>

StatisticsSpec == StatisticsInit /\ [][ApplyStatistics]_vars

----------------------------------------------------------------------------
(* Properties. *)

Last(q) == q[Len(q)]

IsPrefix(p, q) == Len(p) <= Len(q) /\ SubSeq(q, 1, Len(p)) = p

Max(a, b) == IF a >= b THEN a ELSE b

\* The operation invocations of the run: real executions and dedup reuses.
Invocations == trace.invocations + trace.reuses

LastIsError == state.tool_results # <<>> /\ IsError(Last(state.tool_results))

\* The executor runs with a history shorter than the longest plan (a step is
\* left, or the plan is empty and so is the history), so the guard on the
\* history length in ToolExecutor restricts no run.
HistoryGuardIdle == pc = "tool_executor" => Len(state.tool_results) < MaxPlanLen

\* C1: provided every oracle and operation call returns, every run executes
\* synthesizer_node once and reaches END; no run loops forever between
\* tool_selector, tool_executor and analyzer.
C1_Terminates == <>(pc = "END" /\ trace.synthesizer = 1)

\* A run that went round the loop more than once and reached END.
C1_Witness == pc = "END" /\ trace.synthesizer = 1 /\ trace.analyzer >= 2

\* C2, as stated: the operation invocations of a run never exceed
\* MAX_ITERATIONS, for every ceiling including 0.
C2_Original == Invocations <= MAX_ITERATIONS

\* C2, amended: the operation invocations of a run never exceed
\* max(1, MAX_ITERATIONS): the first cycle runs before the ceiling is read.
C2_Amended == Invocations <= Max(1, MAX_ITERATIONS)

\* The ceiling stopped a run that had steps left and no error.
C2_Witness ==
    /\ lastNode = "analyzer" /\ pc = "synthesizer"
    /\ MAX_ITERATIONS >= 2
    /\ state.iteration_count >= MAX_ITERATIONS
    /\ state.current_step < Len(state.plan)
    /\ ~LastIsError
    /\ Invocations >= 1

\* C3: after every analyzer pass the next node is synthesizer iff
\* iteration_count >= MAX_ITERATIONS, or the last record is an error, or
\* current_step >= len(plan); in every other case it is tool_selector.
C3_Routing ==
    lastNode = "analyzer" =>
        /\ pc \in {"synthesizer", "tool_selector"}
        /\ pc = "synthesizer" <=>
              \/ state.iteration_count >= MAX_ITERATIONS
              \/ LastIsError
              \/ state.current_step >= Len(state.plan)

\* The analyzer routed to synthesizer for the error record alone.
C3_Witness ==
    /\ lastNode = "analyzer" /\ pc = "synthesizer"
    /\ LastIsError
    /\ state.iteration_count < MAX_ITERATIONS
    /\ state.current_step < Len(state.plan)

\* C4: once the planner has run, 0 <= current_step <= len(plan) in every
\* state and current_step never decreases from one node to the next.
C4_StepInRange ==
    /\ [](trace.planner >= 1 =>
            0 <= state.current_step /\ state.current_step <= Len(state.plan))
    /\ [][trace.planner >= 1 => state.current_step' >= state.current_step]_vars

\* An error pass on the empty plan, with current_step at len(plan) = 0.
C4_Witness ==
    /\ trace.planner >= 1 /\ lastNode = "tool_executor"
    /\ state.plan = <<>> /\ state.current_step = 0 /\ LastIsError

\* C5, as stated: every executor pass that invokes an operation advances
\* current_step by one, whether the invocation returns or raises, and no
\* other node changes current_step after planning.
C5_Original ==
    [][/\ lastNode' = "tool_executor" /\ lastBranch' \in {"invoke_ok", "invoke_raised"}
            => state.current_step' = state.current_step + 1
       /\ lastNode' \in {"tool_selector", "analyzer", "synthesizer"}
            => state.current_step' = state.current_step]_vars

\* C5, amended: an executor pass whose invocation returns advances
\* current_step by one, a pass whose invocation raises leaves it unchanged,
\* and no other node changes current_step after planning.
C5_Amended ==
    [][/\ lastNode' = "tool_executor" /\ lastBranch' = "invoke_ok"
            => state.current_step' = state.current_step + 1
       /\ lastNode' = "tool_executor" /\ lastBranch' = "invoke_raised"
            => state.current_step' = state.current_step
       /\ lastNode' \in {"tool_selector", "analyzer", "synthesizer"}
            => state.current_step' = state.current_step]_vars

\* An invocation raised at the second step, after one that returned.
C5_Witness ==
    /\ lastNode = "tool_executor" /\ lastBranch = "invoke_raised"
    /\ state.current_step = 1 /\ Len(state.tool_results) = 2

\* C6: final_answer is None until synthesizer_node runs, is written once and
\* only by synthesizer_node, and no node runs after it is written; it is set
\* exactly when the run has left the loop and reached END.
C6_FinalAnswer ==
    /\ [](/\ state.final_answer = JNull <=> trace.synthesizer = 0
          /\ trace.synthesizer <= 1
          /\ state.final_answer # JNull <=> pc = "END")
    /\ [][/\ state.final_answer = JNull
          /\ state.final_answer' # state.final_answer => lastNode' = "synthesizer"]_vars

\* The answer was written after the loop ran and stopped on an error.
C6_Witness ==
    /\ pc = "END" /\ state.final_answer # JNull
    /\ trace.executor >= 2 /\ LastIsError

\* C7: tool_results is append-only; every tool_executor pass appends exactly
\* one record and no other node appends any, so len(tool_results) is the
\* number of executor passes and is >= current_step.
C7_AppendOnly ==
    /\ [][/\ IsPrefix(state.tool_results, state.tool_results')
          /\ lastNode' = "tool_executor" =>
                Len(state.tool_results') = Len(state.tool_results) + 1
          /\ lastNode' # "tool_executor" =>
                state.tool_results' = state.tool_results]_vars
    /\ [](/\ Len(state.tool_results) = trace.executor
          /\ Len(state.tool_results) >= state.current_step)

\* A history of a result record followed by an error record.
C7_Witness ==
    /\ Len(state.tool_results) = 2 /\ LastIsError
    /\ state.current_step = 1 /\ trace.executor = 2

\* The fatal returns of an executor pass: the six that invoke nothing, and
\* the invocation that raises.
FatalKinds == FatalBranches \cup {"invoke_raised"}

\* C8: every fatal condition of a cycle appends exactly one error record in
\* the executor pass that sets needs_more_info to False, and the analyzer
\* pass that follows routes to synthesizer.
C8_FatalFunnel ==
    /\ [][lastNode' = "tool_executor" /\ lastBranch' \in FatalKinds =>
            /\ Len(state.tool_results') = Len(state.tool_results) + 1
            /\ IsPrefix(state.tool_results, state.tool_results')
            /\ IsError(Last(state.tool_results'))
            /\ state.needs_more_info' = FALSE]_vars
    /\ [](lastNode = "analyzer" /\ lastBranch \in FatalKinds => pc = "synthesizer")

\* A pipeline violation, with steps left and the ceiling not reached, routed
\* to synthesizer.
C8_Witness ==
    /\ lastNode = "analyzer" /\ lastBranch = "pipeline" /\ pc = "synthesizer"
    /\ state.current_step < Len(state.plan)
    /\ state.iteration_count < MAX_ITERATIONS

\* The plain strings with which an operation reports a failure.
ErrorStrings == {SearchNone, ReviewsNone, StatsError}

\* The last executor pass invoked an operation that failed: it raised, or it
\* returned an error string.
InvocationFailed ==
    \/ lastBranch = "invoke_raised"
    \/ /\ lastBranch = "invoke_ok"
       /\ Last(state.tool_results).result \in ErrorStrings

\* C9: whenever an invoked operation fails, by raising or by returning a
\* plain error string, the executor records an error record, the loop stops
\* at the next progress check, and the step is not retried.
C9_FailureRecorded ==
    lastNode \in {"tool_executor", "analyzer"} /\ InvocationFailed =>
        /\ LastIsError
        /\ lastNode = "analyzer" => pc = "synthesizer"

\* The selector text is {"tool": T, "parameters": {K: V}}, one well-formed
\* object with a non-empty parameter object.
IsNestedSelection(text) ==
    /\ Len(text) = 7
    /\ text[1] = LB /\ text[2].t = "pair" /\ text[2].k = "tool"
    /\ text[3] = Key("parameters")
    /\ text[4] = LB /\ text[5].t = "pair" /\ text[6] = RB /\ text[7] = RB

\* C10: when the selector text is one well-formed object {"tool": T,
\* "parameters": P} with P non-empty, every key of P is present with its
\* value in the parameters of the resulting invocation (no repair rule of
\* the model overrides a key that is present).
C10_WholeObject ==
    /\ lastNode = "tool_executor"
    /\ lastBranch \in {"invoke_ok", "duplicate"}
    /\ IsNestedSelection(state.intermediate_analysis)
    => /\ Last(state.tool_results).parameters.ty = "dict"
       /\ state.intermediate_analysis[5].k
              \in DOMAIN Last(state.tool_results).parameters.map
       /\ Last(state.tool_results).parameters.map[state.intermediate_analysis[5].k]
              = state.intermediate_analysis[5].v

\* The text holds no JSON object: no brace-free span of it parses.
HoldsNoObject(text) ==
    \A ij \in ObjectSpans(text) : ~json_loads(SubSeq(text, ij[1], ij[2])).ok

\* An executor pass that appends one error record, clears needs_more_info,
\* invokes and reuses nothing and leaves current_step where it was.
FailsWithoutInvoking ==
    /\ Len(state.tool_results') = Len(state.tool_results) + 1
    /\ IsPrefix(state.tool_results, state.tool_results')
    /\ IsError(Last(state.tool_results'))
    /\ state.needs_more_info' = FALSE
    /\ state.current_step' = state.current_step
    /\ trace.invocations' = trace.invocations
    /\ trace.reuses' = trace.reuses

\* C11: when the selector text holds no JSON object, tool_executor_node
\* appends exactly one error record, sets needs_more_info to False, invokes
\* no operation and leaves current_step unchanged; it guesses no operation.
C11_NoObjectNoGuess ==
    [][lastNode' = "tool_executor" /\ HoldsNoObject(state.intermediate_analysis)
          => FailsWithoutInvoking /\ lastBranch' \in {"no_match", "json_error"}]_vars

\* A prose text, at a step of a plan, ended the pass with the parse failure.
C11_Witness ==
    /\ lastNode = "tool_executor" /\ lastBranch = "no_match"
    /\ state.intermediate_analysis = TextProse
    /\ state.current_step < Len(state.plan)
    /\ Last(state.tool_results) = ErrorRecord(<<"Failed to parse tool selection">>)

\* The selection of state s parses as a JSON object.
SelectionParses(s) ==
    /\ json_match(s.intermediate_analysis) # <<>>
    /\ json_loads(MatchGroup(s.intermediate_analysis)).ok

\* After every repair the operation name is empty or no name of the catalog.
NameUnresolved(name) == ~Truthy(name) \/ ~(name.ty = "str" /\ name.s \in TOOL_MAP)

\* C12: if after all repair the operation name is empty or is none of
\* search_products, analyze_reviews, calculate_statistics, the executor
\* appends an error record, sets needs_more_info to False, invokes no
\* operation and leaves current_step unchanged.
C12_UnknownName ==
    [][(/\ lastNode' = "tool_executor"
        /\ SelectionParses(state)
        /\ NameUnresolved(ResolvedToolName(state)))
       => FailsWithoutInvoking /\ lastBranch' \in {"missing_name", "unknown_tool"}]_vars

\* A selection that names send_email ended the pass with "Unknown tool".
C12_Witness ==
    /\ lastNode = "tool_executor" /\ lastBranch = "unknown_tool"
    /\ state.intermediate_analysis = TextUnknownTool
    /\ Last(state.tool_results) = ErrorRecord(<<"Unknown tool: ", "send_email">>)
    /\ state.current_step < Len(state.plan)

\* C13: two parameter mappings that differ only in the order of the keys or
\* of the elements of their lists, lists that mix 1 and "1" included, have
\* equal canonical forms under _norm.
C13_OrderIndependent ==
    probe.fn = "_norm" /\ probe.out # <<>> => probe.out[1] = probe.out[2]

\* The records of the history of s that hold a call of the operation and of
\* the canonical parameters the pass resolves.
EarlierCalls(s) ==
    { i \in 1..Len(s.tool_results) :
        /\ ~IsError(s.tool_results[i])
        /\ Resolve(s).tool_name.ty = "str"
        /\ s.tool_results[i].tool = Resolve(s).tool_name.s
        /\ _norm(s.tool_results[i].parameters) = _norm(Resolve(s).parameters) }

\* An executor pass that invokes nothing, appends one record with the result
\* of an earlier call and advances current_step by one.
ReusesEarlierResult ==
    /\ lastBranch' = "duplicate"
    /\ Len(state.tool_results') = Len(state.tool_results) + 1
    /\ IsPrefix(state.tool_results, state.tool_results')
    /\ ~IsError(Last(state.tool_results'))
    /\ \E i \in EarlierCalls(state) :
          Last(state.tool_results').result = state.tool_results[i].result
    /\ state.current_step' = state.current_step + 1
    /\ trace.invocations' = trace.invocations

\* C14, as stated: if tool_results holds a non-error record with the same
\* operation name and canonically equal repaired parameters, the executor
\* invokes nothing, appends one record with the prior record's result and
\* advances current_step by one.
C14_Original ==
    [][(/\ lastNode' = "tool_executor"
        /\ SelectionParses(state)
        /\ EarlierCalls(state) # {})
       => ReusesEarlierResult]_vars

\* The pass reaches the dedup check: the parameters are a mapping, and
\* pipeline enforcement does not stop an analyze_reviews or
\* calculate_statistics pass on a plain string as the latest search result.
ReachesDedup(s) ==
    /\ Resolve(s).parameters.ty = "dict"
    /\ ~(InPipeline(Resolve(s).tool_name) /\ last_search(s.tool_results).type = "str")

\* C14, amended: the same, for the passes that reach the dedup check; a pass
\* stopped before it by a fatal condition appends an error record instead.
C14_Amended ==
    [][(/\ lastNode' = "tool_executor"
        /\ SelectionParses(state)
        /\ EarlierCalls(state) # {}
        /\ ReachesDedup(state))
       => ReusesEarlierResult]_vars

\* The same search issued twice: two records with the same result, one real
\* invocation.
C14_Witness ==
    /\ lastNode = "tool_executor" /\ lastBranch = "duplicate"
    /\ Len(state.tool_results) = 2
    /\ state.tool_results[1].tool = "search_products"
    /\ state.tool_results[2].tool = "search_products"
    /\ state.tool_results[2].result = state.tool_results[1].result
    /\ state.current_step = 2
    /\ trace.invocations = 1 /\ trace.reuses = 1

\* C15: the deduplicator reuses a result only from a prior invocation that
\* succeeded: neither an error record nor an error string an operation
\* returned is ever the result of a reuse.
C15_ReuseOnlySuccess ==
    lastNode = "tool_executor" /\ lastBranch = "duplicate" =>
        /\ ~IsError(Last(state.tool_results))
        /\ Last(state.tool_results).result \notin ErrorStrings

\* The places of the search_products records in a history.
SearchRecords(q) ==
    { i \in 1..Len(q) : ~IsError(q[i]) /\ q[i].tool = "search_products" }

\* The search_products record appended last.
MostRecentSearch(q) ==
    q[CHOOSE i \in SearchRecords(q) : \A j \in SearchRecords(q) : j <= i]

\* The selector gave no product filter of its own for operation tool_name.
NoExplicitFilter(tool_name, p) ==
    /\ p.ty = "dict"
    /\ "product_names" \notin DOMAIN p.map
    /\ \/ NameIs(tool_name, "analyze_reviews") /\ "product_name" \notin DOMAIN p.map
       \/ NameIs(tool_name, "calculate_statistics") /\ ~Truthy(Get(p.map, "categories"))

\* The executor is about to invoke analyze_reviews or calculate_statistics,
\* the selector having given no product filter, after a structured search.
InvokesOnSearchSubset(s) ==
    /\ SelectionParses(s)
    /\ Resolve(s).branch = "invoke"
    /\ InPipeline(Resolve(s).tool_name)
    /\ NoExplicitFilter(Resolve(s).tool_name, SelectedParameters(s))
    /\ SearchRecords(s.tool_results) # {}
    /\ MostRecentSearch(s.tool_results).result.type = "dict"

\* C16: whenever analyze_reviews or calculate_statistics is invoked with no
\* product filter from the selector and the most recent search_products
\* record holds a structured result, the product_names the operation is
\* invoked with (and that the record keeps) are exactly the product names of
\* that most recent search, not of an earlier one.
C16_LatestSearchSubset ==
    [][(lastNode' = "tool_executor" /\ InvokesOnSearchSubset(state))
       => /\ lastBranch' \in {"invoke_ok", "invoke_raised"}
          /\ Get(Resolve(state).parameters.map, "product_names")
                = ProductNames(MostRecentSearch(state.tool_results).result)
          /\ lastBranch' = "invoke_ok"
                => Get(Last(state.tool_results').parameters.map, "product_names")
                     = ProductNames(MostRecentSearch(state.tool_results).result)]_vars

\* Two searches with different product lists, then a statistics invocation
\* restricted to the names of the second.
C16_Witness ==
    /\ lastNode = "tool_executor" /\ lastBranch = "invoke_ok"
    /\ Len(state.tool_results) >= 3
    /\ LET q == state.tool_results
           n == Len(state.tool_results)
       IN  /\ q[n].tool = "calculate_statistics"
           /\ q[n - 1].tool = "search_products" /\ q[n - 1].result.type = "dict"
           /\ q[n - 2].tool = "search_products" /\ q[n - 2].result.type = "dict"
           /\ q[n - 1].result.products # q[n - 2].result.products
           /\ Get(q[n].parameters.map, "product_names") = ProductNames(q[n - 1].result)
           /\ Get(q[n].parameters.map, "product_names") # ProductNames(q[n - 2].result)

\* The step at hand resolves to analyze_reviews or calculate_statistics and
\* the most recent search record holds a plain string.
FollowsStringSearch(s) ==
    /\ SelectionParses(s)
    /\ InPipeline(ResolvedToolName(s))
    /\ SearchRecords(s.tool_results) # {}
    /\ MostRecentSearch(s.tool_results).result.type = "str"

\* C17: if the most recent search_products record holds a plain string, a
\* following analyze_reviews or calculate_statistics step invokes nothing:
\* the executor appends an error record, sets needs_more_info to False and
\* leaves current_step unchanged, and the analyzer that runs next routes
\* to the synthesizer.
C17_StringSearchStops ==
    [][/\ (lastNode' = "tool_executor" /\ FollowsStringSearch(state))
          => FailsWithoutInvoking /\ lastBranch' \in {"pipeline", "exception"}
       /\ (/\ lastNode = "tool_executor" /\ lastBranch \in {"pipeline", "exception"}
           /\ FollowsStringSearch(state)
           /\ lastNode' = "analyzer")
          => pc' = "synthesizer"]_vars

\* A search that returned a string, then a statistics step stopped by the
\* executor, and the analyzer routing to the synthesizer.
C17_Witness ==
    /\ lastNode = "analyzer" /\ lastBranch = "pipeline" /\ pc = "synthesizer"
    /\ Len(state.tool_results) = 2
    /\ state.tool_results[1].tool = "search_products"
    /\ state.tool_results[1].result = SearchNone
    /\ state.tool_results[2]
         = ErrorRecord(<<"Search did not produce a product subset: ", SearchNone.text>>)
    /\ state.current_step = 1
    /\ state.needs_more_info = FALSE
    /\ trace.invocations = 1 /\ trace.reuses = 0

\* C18: if the most recent search record holds a structured result with no
\* product name and the selector gave neither product_names nor categories,
\* the calculate_statistics invocation that follows receives product_names
\* equal to the empty list: the key is present and empty, not absent.
C18_EmptySubsetKept ==
    [][(/\ lastNode' = "tool_executor"
        /\ InvokesOnSearchSubset(state)
        /\ NameIs(Resolve(state).tool_name, "calculate_statistics")
        /\ MostRecentSearch(state.tool_results).result.products = <<>>)
       => /\ "product_names" \in DOMAIN Resolve(state).parameters.map
          /\ Resolve(state).parameters.map["product_names"] = JList(<<>>)
          /\ lastBranch' = "invoke_ok"
                => /\ "product_names" \in DOMAIN Last(state.tool_results').parameters.map
                   /\ Last(state.tool_results').parameters.map["product_names"] = JList(<<>>)]_vars

\* A search that found no product, then a statistics invocation recorded
\* with product_names present and empty.
C18_Witness ==
    /\ lastNode = "tool_executor" /\ lastBranch = "invoke_ok"
    /\ Len(state.tool_results) = 2
    /\ state.tool_results[1].tool = "search_products"
    /\ state.tool_results[1].result = SearchEmpty
    /\ state.tool_results[2].tool = "calculate_statistics"
    /\ "product_names" \in DOMAIN state.tool_results[2].parameters.map
    /\ state.tool_results[2].parameters.map["product_names"] = JList(<<>>)
    /\ trace.invocations = 2

\* C19: for every selector text that parses, whatever operation it names
\* (search_products, calculate_statistics, an unknown name, none), if the
\* current step is "Analyze reviews for complaints" the operation the
\* executor resolves is analyze_reviews: the pass never ends on a missing or
\* unknown name, and a record it appends names analyze_reviews.
C19_StepForcesAnalysis ==
    [][(/\ lastNode' = "tool_executor"
        /\ SelectionParses(state)
        /\ current_task_text(state) = StepReviews)
       => /\ Resolve(state).tool_name = JStr("analyze_reviews")
          /\ lastBranch' \notin {"no_match", "json_error", "missing_name", "unknown_tool"}
          /\ lastBranch' \in {"invoke_ok", "duplicate"}
                => Last(state.tool_results').tool = "analyze_reviews"]_vars

\* The selector named search_products on the review step and the executor
\* invoked analyze_reviews.
C19_Witness ==
    /\ lastNode = "tool_executor" /\ lastBranch = "invoke_ok"
    /\ state.plan # <<>> /\ state.plan[1] = StepReviews
    /\ state.intermediate_analysis = TextSearchFlat
    /\ Len(state.tool_results) = 1
    /\ state.tool_results[1].tool = "analyze_reviews"
    /\ state.current_step = 1

\* C20: for the goal "find products under 2000 with rating below 4.0" and a
\* selector text that chooses search_products with empty parameters, the
\* repaired search parameters hold max_price 2000 and max_rating 4.0.
C20_GoalBounds ==
    (/\ lastNode = "tool_executor" /\ lastBranch = "invoke_ok"
     /\ state.user_goal = GoalUnder
     /\ state.intermediate_analysis = TextSearchFlat
     /\ Last(state.tool_results).tool = "search_products")
    => /\ Get(Last(state.tool_results).parameters.map, "max_price") = JNum("2000")
       /\ Get(Last(state.tool_results).parameters.map, "max_rating") = JNum("4.0")

\* Every record of the history is the result of an operation that returned.
AllReturned(q) == \A i \in 1..Len(q) : ~IsError(q[i]) /\ q[i].result \notin ErrorStrings

\* C21: in the category comparison scenario, with a plan that searches both
\* categories and then calculates statistics, and both operations returning,
\* the run invokes search_products with category "Electronics, Clothing",
\* then calculate_statistics with operation "category_comparison" and
\* categories ["Electronics", "Clothing"], leaves the loop with
\* current_step = 2, and produces a non-null final_answer.
C21_EndToEnd ==
    (/\ pc = "END"
     /\ state.plan = <<StepSearchBoth, StepStats>>
     /\ Len(state.tool_results) = 2
     /\ AllReturned(state.tool_results))
    => /\ state.tool_results[1].tool = "search_products"
       /\ Get(state.tool_results[1].parameters.map, "category") = JStr("Electronics, Clothing")
       /\ state.tool_results[2].tool = "calculate_statistics"
       /\ Get(state.tool_results[2].parameters.map, "operation") = JStr("category_comparison")
       /\ Get(state.tool_results[2].parameters.map, "categories")
            = JList(<<JStr("Electronics"), JStr("Clothing")>>)
       /\ state.current_step = 2
       /\ state.final_answer # JNull

\* C22: for every oracle response, the response "[]" and a blank response
\* included, the plan planner_node returns is a non-empty list.
C22_PlanNonEmpty == lastNode = "planner" => state.plan # <<>>

\* C23: the formatted result of a history entry is at most 3000 characters
\* plus the truncation marker, whether the result is a mapping with a
\* summary field or any other value.
C23_ResultBudget ==
    (probe.fn = "_format_result" /\ probe.out # <<>>)
    => probe.out[1] <= FORMAT_BUDGET + TRUNCATION_MARKER_LEN

\* C24: every run_agent call that returns gives back a non-null, non-empty
\* string: the synthesizer's answer when that is non-empty, otherwise the
\* apology "Unable to generate a response. Please try again.".
C24_ReturnsText ==
    probe.fn = "run_agent"
    => /\ probe.out[1].ty = "str" /\ probe.out[1].s # ""
       /\ probe.out[1] = IF state.final_answer \notin {JNull, JStr("")}
                         THEN state.final_answer ELSE JStr(APOLOGY)

\* The synthesizer's answer was empty and run_agent returned the apology.
C24_Witness ==
    /\ probe.fn = "run_agent" /\ pc = "END"
    /\ state.final_answer = JStr("")
    /\ probe.out = <<JStr(APOLOGY)>>

\* C25: iteration_count never decreases, and in every reachable state it is
\* at least the number of completed selector, executor, analyzer cycles,
\* the cycles that ended with an error record included.
C25_CounterCoversCycles ==
    /\ [](state.iteration_count >= trace.analyzer)
    /\ [][state.iteration_count' >= state.iteration_count]_vars

\* Two completed cycles, the second ended with an error record that the
\* analyzer did not count: the counter equals the number of cycles.
C25_Witness ==
    /\ lastNode = "analyzer" /\ LastIsError
    /\ trace.analyzer = 2
    /\ state.iteration_count = 2

\* C26: when the selector chooses calculate_statistics with operation
\* "rating_ranking" and no top_n, and the goal holds "top 5", the statistics
\* invocation is made with operation "rating_ranking" and top_n = 5.
C26_RankingTopN ==
    (/\ lastNode = "tool_executor" /\ lastBranch = "invoke_ok"
     /\ state.user_goal = GoalTop
     /\ state.intermediate_analysis = TextStatsNested
     /\ Last(state.tool_results).tool = "calculate_statistics")
    => /\ Get(Last(state.tool_results).parameters.map, "operation") = JStr("rating_ranking")
       /\ Get(Last(state.tool_results).parameters.map, "top_n") = JNum("5")

\* C27: when analyze_reviews is resolved and the parameters carry no
\* analysis_type, a step that mentions complaints, such as "Analyze reviews
\* for complaints and what makes products fail", is given analysis_type
\* "complaints".
C27_ComplaintsStep ==
    (/\ lastNode = "tool_executor" /\ lastBranch = "invoke_ok"
     /\ Last(state.tool_results).tool = "analyze_reviews"
     /\ state.plan[Last(state.tool_results).step] = StepComplaintsFail)
    => Get(Last(state.tool_results).parameters.map, "analysis_type") = JStr("complaints")

MainExited == probe.fn = "main" /\ probe.at = "exit"

\* C28 as stated: for every combination of the flags, main exits with code
\* 1 whenever CLAUDE_API_KEY is missing, and with code 0 on normal
\* completion.
C28_Original ==
    MainExited
    => /\ probe.args.key = "" => probe.code = 1
       /\ (probe.args.key # "" /\ ~probe.crashed) => probe.code = 0

\* C28, amended: with --graph main prints the graph and exits with code 0
\* whether or not the credential is set; without --graph it exits with code
\* 1 when CLAUDE_API_KEY is missing, and with code 0 when the chosen mode
\* completes without an uncaught exception.
C28_Amended ==
    MainExited
    => /\ probe.args.graph => probe.code = 0
       /\ (~probe.args.graph /\ probe.args.key = "") => probe.code = 1
       /\ (~probe.args.graph /\ probe.args.key # "" /\ ~probe.crashed) => probe.code = 0

\* --graph without the credential: exit code 0.
C28_Witness ==
    /\ MainExited
    /\ probe.args.graph /\ probe.args.key = ""
    /\ probe.code = 0

\* C29: planner_node runs exactly once per run and is the only node that
\* writes plan; after it, plan (content and order) and user_goal are left
\* unchanged by every tool_selector, tool_executor, analyzer and
\* synthesizer transition.
C29_PlanWrittenOnce ==
    /\ [](trace.planner = IF pc = "planner" THEN 0 ELSE 1)
    /\ [][/\ state.user_goal' = state.user_goal
          /\ lastNode' # "planner" => state.plan' = state.plan
          /\ lastNode' = "planner" => trace.planner = 0]_vars

\* A run that executed both steps of its plan and ended, the plan intact.
C29_Witness ==
    /\ pc = "END" /\ trace.planner = 1
    /\ state.plan = <<StepSearch, StepReviews>>
    /\ state.current_step = 2
    /\ trace.selector = 2 /\ trace.executor = 2 /\ trace.analyzer = 2

\* The step text holds "review" with one of analy, complaint, praise, theme.
HasReviewCue(text) ==
    /\ Contains(text, "review")
    /\ \E k \in {"analy", "complaint", "praise", "theme"} : Contains(text, k)

\* The step text holds one of the statistics keywords.
HasStatisticsCue(text) ==
    \E k \in {"statistic", "calculate", "compare", "ranking", "average", "summary"} :
        Contains(text, k)

\* The operation the step text calls for, given the selector's name.
ExpectedOperation(s) ==
    IF HasReviewCue(current_task_text(s)) THEN JStr("analyze_reviews")
    ELSE IF HasStatisticsCue(current_task_text(s)) THEN JStr("calculate_statistics")
    ELSE SelectedToolName(s)

\* C30: the step-text override has a fixed precedence that beats the
\* selector's choice: a step with "review" and one of analy, complaint,
\* praise, theme resolves to analyze_reviews even when it also holds a
\* statistics keyword; otherwise a step with one of statistic, calculate,
\* compare, ranking, average, summary resolves to calculate_statistics;
\* otherwise the selector's (or inferred) name is kept.
C30_OverridePrecedence ==
    [][(lastNode' = "tool_executor" /\ SelectionParses(state))
       => /\ Resolve(state).tool_name = ExpectedOperation(state)
          /\ lastBranch' \in {"invoke_ok", "duplicate"}
                => JStr(Last(state.tool_results').tool) = ExpectedOperation(state)]_vars

\* The selector named calculate_statistics on a review step that also asks
\* for summary statistics, and analyze_reviews was invoked.
C30_Witness ==
    /\ lastNode = "tool_executor" /\ lastBranch = "invoke_ok"
    /\ state.intermediate_analysis = TextStatsNested
    /\ state.plan[Last(state.tool_results).step] = StepReviewSummary
    /\ Last(state.tool_results).tool = "analyze_reviews"

\* C31: the record appended on a dedup hit is marked as reused: it carries
\* a field that the record of a freshly executed operation does not have.
C31_ReuseMarked ==
    (lastNode = "tool_executor" /\ lastBranch = "duplicate")
    => DOMAIN Last(state.tool_results) # {"step", "tool", "parameters", "result"}

\* C32: calculate_statistics called with product_names equal to the empty
\* list computes over the empty product set, never over the whole dataset.
C32_EmptyFilterIsEmpty ==
    (/\ probe.fn = "calculate_statistics" /\ probe.out # <<>>
     /\ probe.inp.product_names = JList(<<>>))
    => probe.out[1] = {}

\* C33: a plain string result always denotes an error, so a record of
\* tool_results whose result is a plain string never belongs to an
\* invocation that succeeded.
C33_StringMeansError ==
    \A i \in 1..Len(state.tool_results) :
        (~IsError(state.tool_results[i]) /\ state.tool_results[i].result.type = "str")
        => state.tool_results[i].result \in ErrorStrings

\* C34: tool_results holds at most one record with the key 'error', and that
\* record is the last one; once it is appended tool_executor_node is neither
\* scheduled nor run again in that run.
C34_ErrorIsFinal ==
    /\ [](\A i \in 1..Len(state.tool_results) :
             IsError(state.tool_results[i]) => i = Len(state.tool_results))
    /\ [][LastIsError => (pc' # "tool_executor" /\ trace'.executor = trace.executor)]_vars

\* A run that ended on an error record appended after a result record, with
\* a step of the plan left and the ceiling not reached.
C34_Witness ==
    /\ pc = "END" /\ LastIsError
    /\ Len(state.tool_results) = 2
    /\ state.current_step < Len(state.plan)
    /\ state.iteration_count < MAX_ITERATIONS

\* The records of q that have no key 'error', in the order of q.
Returned(q) == SelectSeq(q, LAMBDA rec : ~IsError(rec))

\* C35: at every node boundary after planning, current_step equals the
\* number of records of tool_results that have no key 'error', the executed
\* and the reused records together.
C35_StepCountsResults ==
    trace.planner >= 1 => state.current_step = Len(Returned(state.tool_results))

\* A pass that reused the result of the first step for the second.
C35_Witness ==
    /\ trace.planner >= 1
    /\ lastNode = "tool_executor" /\ lastBranch = "duplicate"
    /\ state.current_step = 2 /\ Len(state.tool_results) = 2

\* C36: the k-th record of tool_results without the key 'error' carries
\* step k, so the steps run 1, 2, 3, ... with no gap and no repeat, and no
\* step exceeds len(plan).
C36_StepsNumbered ==
    \A k \in 1..Len(Returned(state.tool_results)) :
        /\ Returned(state.tool_results)[k].step = k
        /\ Returned(state.tool_results)[k].step <= Len(state.plan)

\* Two result records, the second a reused one, on a plan of two steps.
C36_Witness ==
    /\ Len(Returned(state.tool_results)) = 2
    /\ Len(state.plan) = 2
    /\ lastBranch = "duplicate"
    /\ Last(state.tool_results).step = 2

\* The completed cycles that did not end in an error record: every cycle
\* appends one record, and the analyzer closes the cycle.
CyclesWithoutError == trace.analyzer - (Len(state.tool_results) - Len(Returned(state.tool_results)))

\* C37: at every progress check iteration_count is 1 plus the number of
\* completed cycles that did not end in an error record; a run with ceiling
\* M completes at most max(1, M - 1) cycles, and a run that reaches END has
\* completed at least one cycle, exactly one when M <= 1.
C37_CounterAndCycles ==
    /\ lastNode = "analyzer" => state.iteration_count = 1 + CyclesWithoutError
    /\ trace.analyzer <= Max(1, MAX_ITERATIONS - 1)
    /\ pc = "END" => /\ trace.analyzer >= 1
                     /\ MAX_ITERATIONS <= 1 => trace.analyzer = 1

\* A run with ceiling 0 that ended after its one cycle, a step of the plan
\* left and no error recorded.
C37_Witness ==
    /\ pc = "END" /\ MAX_ITERATIONS = 0
    /\ trace.analyzer = 1 /\ state.iteration_count = 2
    /\ state.current_step < Len(state.plan)
    /\ ~LastIsError

\* C38: the selector takes its early return (current_step >= len(plan)) only
\* when the plan is empty; the executor then runs on the empty selector
\* text, appends exactly one parse-failure error record and invokes nothing,
\* and the run goes on to synthesis with current_step = 0.
C38_ShortCircuit ==
    /\ [](pc = "tool_selector" /\ state.current_step >= Len(state.plan)
             => state.plan = <<>> /\ state.tool_results = <<>>)
    /\ [][pc = "tool_selector" /\ state.plan = <<>>
             => /\ state'.intermediate_analysis = <<>>
                /\ ~state'.needs_more_info
                /\ pc' = "tool_executor"]_vars
    /\ [][pc = "tool_executor" /\ state.plan = <<>>
             => /\ lastBranch' = "no_match"
                /\ state'.tool_results = <<ErrorRecord(<<"Failed to parse tool selection">>)>>
                /\ Invocations' = Invocations
                /\ state'.current_step = 0]_vars
    /\ [][pc = "analyzer" /\ state.plan = <<>>
             => /\ pc' = "synthesizer"
                /\ state'.current_step = 0
                /\ Len(state'.tool_results) = 1]_vars

\* A run on an empty plan that reached END after the selector's early
\* return and one parse-failure record.
C38_Witness ==
    /\ pc = "END" /\ trace.selector = 1 /\ trace.executor = 1
    /\ state.plan = <<>> /\ state.current_step = 0
    /\ state.tool_results = <<ErrorRecord(<<"Failed to parse tool selection">>)>>
    /\ Invocations = 0
    /\ MAX_ITERATIONS >= 2

\* The executor is about to run an analyze_reviews or calculate_statistics
\* step whose selection parsed, and tool_results holds no search_products
\* record.
PipelineStepWithoutSearch(s) ==
    /\ SearchRecords(s.tool_results) = {}
    /\ SelectionParses(s)
    /\ InPipeline(ResolvedToolName(s))

\* The parameters the executor resolved carry no product_names key that the
\* selection did not carry.
NoRestrictionAdded(s) ==
    IF SelectedParameters(s).ty = "dict"
    THEN /\ Resolve(s).parameters.ty = "dict"
         /\ "product_names" \in DOMAIN Resolve(s).parameters.map
               => "product_names" \in DOMAIN SelectedParameters(s).map
    ELSE Resolve(s).parameters = SelectedParameters(s)

\* C39, as stated: when tool_results holds no search_products record, an
\* analyze_reviews or calculate_statistics step reaches its call (read
\* generously: the invocation, or the reuse of an identical earlier call)
\* with no product_names restriction added, and no return before the call
\* appends an error record.
C39_Original ==
    [][pc = "tool_executor" /\ PipelineStepWithoutSearch(state)
         => /\ lastBranch' \in {"invoke_ok", "invoke_raised", "duplicate"}
            /\ NoRestrictionAdded(state)
            /\ lastBranch' # "invoke_raised" => ~IsError(Last(state'.tool_results))]_vars

\* C39, amended: when tool_results holds no search_products record, pipeline
\* enforcement neither halts an analyze_reviews or calculate_statistics step
\* nor adds product_names to it.  When the selected parameters are a mapping
\* the step reaches its call (the invocation, or the reuse of an identical
\* earlier call) and only an invocation that raises appends an error record;
\* when they are no mapping a repair rule may raise first, and that pass
\* appends one error record and invokes nothing.
C39_NoSearchNoRestriction ==
    [][pc = "tool_executor" /\ PipelineStepWithoutSearch(state)
         => /\ lastBranch' # "pipeline"
            /\ NoRestrictionAdded(state)
            /\ lastBranch' \in {"invoke_ok", "invoke_raised", "duplicate", "exception"}
            /\ SelectedParameters(state).ty = "dict" => lastBranch' # "exception"
            /\ lastBranch' \in {"invoke_ok", "duplicate"}
                  => /\ ~IsError(Last(state'.tool_results))
                     /\ Last(state'.tool_results).parameters = Resolve(state).parameters
            /\ lastBranch' = "exception"
                  => /\ IsError(Last(state'.tool_results))
                     /\ Len(state'.tool_results) = Len(state.tool_results) + 1
                     /\ Invocations' = Invocations]_vars

\* An analyze_reviews step invoked as the first step of the run, with no
\* product_names in the recorded parameters.
C39_Witness ==
    /\ lastNode = "tool_executor" /\ lastBranch = "invoke_ok"
    /\ Len(state.tool_results) = 1
    /\ state.tool_results[1].tool = "analyze_reviews"
    /\ state.tool_results[1].parameters.ty = "dict"
    /\ "product_names" \notin DOMAIN state.tool_results[1].parameters.map

====
